---- MODULE Spec2Model ----
(***************************************************************************)
(* Model of io-react-native-secure-storage.                                *)
(*                                                                         *)
(*  - the iOS core `SecureStorage` (Keychain services) and the iOS bridge  *)
(*    `IoReactNativeSecureStorage` with its serial dispatch queue;         *)
(*  - the Android bridge `IoReactNativeSecureStorageModule` (one Thread    *)
(*    per call, keys() inline, lazily built store);                        *)
(*  - the Android core `com.pagopa.securestorage.SecureStorage`, whose     *)
(*    source is not part of the tree: it is modelled from the written      *)
(*    specification (key-name codec, chunked cipher, file store, mode      *)
(*    selection).                                                         *)
(*                                                                         *)
(* Specifications: Spec drives the two cores directly, one call at a time, *)
(* as the unit tests do; SpecStores drives two stores side by side;        *)
(* SpecTamper changes manually encrypted files behind the store;           *)
(* SpecBridge drives the two bridges with calls submitted from the         *)
(* JavaScript side, SpecVariants does so for every revision of the Android *)
(* bridge kept in the tree; SpecJS calls the functions exported by the     *)
(* TypeScript module; SpecDecode reads through a bridge values stored by   *)
(* native code; SpecLock locks and unlocks the device between the calls on *)
(* the iOS core; SpecWrite takes put step by step, with readers, failures  *)
(* and crashes between the steps; SpecRace issues a put and gets of the    *)
(* same key through a bridge without awaiting the put; SpecFrame makes     *)
(* puts and removes on a store holding several keys; SpecQueue runs the    *)
(* blocks of the iOS bridge with the put block taken call by call.         *)
(***************************************************************************)
EXTENDS Integers, Sequences, FiniteSets, TLC

VARIABLES
    platform,       \* "ios" | "android": which implementation this run exercises
    keychain,       \* iOS Keychain: service -> account -> item
    files,          \* Android storage directories: directory -> file name -> file
    keystore,       \* Android hardware key facility: key material of the alias of each
                    \* directory, 0 = none yet
    dirEncrypted,   \* Android: is the directory covered by file-based encryption
    facilityOK,     \* Android: is the hardware key facility available
    store,          \* Android core instance held by the caller over each directory
                    \* (built or not, resolved mode)
    last,           \* the last completed core call and its result
    shadow,         \* key -> value of the latest successful put not yet removed / cleared
    reopened,       \* an instance was created over the test store after its latest successful put
    tampered,       \* keys of the test store whose file was changed behind the store
    forceManualEncryption, \* Android module field
    lazy,           \* Android module: state of `secureStorage by lazy`
    builtOn,        \* thread that ran the lazy builder
    calls,          \* bridge calls issued so far, each with its position and promise
    queue,          \* iOS serial dispatch queue: indices of the blocks not yet started
    variant,        \* which revision of the native bridge this run exercises
    builds,         \* number of times the Android lazy builder has run
    forceAtFirstOp, \* value of forceManualEncryption when the first operation was issued
    jsCalls,        \* calls made to the functions exported by the TypeScript module
    deviceLocked,   \* iOS: the device is locked (protected Keychain items are unavailable)
    pending         \* the put in progress, between its first step and its return

vars == <<platform, keychain, files, keystore, dirEncrypted, facilityOK, store,
          last, shadow, reopened, tampered, forceManualEncryption, lazy, builtOn, calls, queue,
          variant, builds, forceAtFirstOp, jsCalls, deviceLocked, pending>>

coreVars == <<keychain, files, keystore, store>>
ghostVars == <<last, shadow, reopened, tampered>>
bridgeVars == <<forceManualEncryption, lazy, builtOn, calls, queue, builds, forceAtFirstOp>>
envVars == <<platform, dirEncrypted, facilityOK, variant, deviceLocked>>
jsVars == <<jsCalls>>
writeVars == <<pending>>

(***************************************************************************)
(* Bounds and value domains                                                *)
(***************************************************************************)
\* number of bridge calls the JavaScript side issues in one run
MaxCalls == 2

\* number of calls made to the exported TypeScript functions in one run
MaxJSCalls == 2

\* chunk size C of the chunked cipher, scaled down from 1 MiB
ChunkSize == 2

\* bytes of encrypted streams are taken modulo ByteMod (256, scaled down)
ByteMod == 4

\* characters of key strings: one that is file-name safe, one that is not, and
\* the escape character of the key-name codec
SafeChar == "a"
UnsafeChar == "/"
EscChar == "%"

K1 == <<SafeChar>>
K2 == <<SafeChar, UnsafeChar>>
Keys == {K1, K2}

\* plaintext values: empty, shorter than a chunk, exactly C bytes, C+1 bytes (two chunks)
Fill(n, b) == [i \in 1..n |-> IF i = n THEN b ELSE 1]
Values == { <<>>, <<1>>, Fill(ChunkSize, 2), Fill(ChunkSize + 1, 0) }

Nonces == {0, 1}
KeyMaterial == {1, 2}

ServiceBridge == "rn-secure-storage"
ServiceTest == "rn-test"
Services == {ServiceBridge, ServiceTest}

\* Android storage directories: the one of the bridge and the one of the tests
DirBridge == "secure-storage"
DirTest == "instrumental-testing"
Dirs == {DirBridge, DirTest}

RECURSIVE Concat(_)
Concat(ss) == IF ss = <<>> THEN <<>> ELSE Head(ss) \o Concat(Tail(ss))

RECURSIVE Sum(_)
Sum(s) == IF s = <<>> THEN 0 ELSE Head(s) + Sum(Tail(s))

ToSet(s) == { s[i] : i \in 1..Len(s) }

\* all the orders in which a set of keys can be listed
Orders(S) == { s \in UNION { [1..n -> S] : n \in {Cardinality(S)} } : ToSet(s) = S }

(***************************************************************************)
(* Results of core calls                                                   *)
(***************************************************************************)
RThrow == [kind |-> "throw", data |-> <<>>, list |-> <<>>]
ROk == [kind |-> "ok", data |-> <<>>, list |-> <<>>]
RNil == [kind |-> "nil", data |-> <<>>, list |-> <<>>]
RData(d) == [kind |-> "data", data |-> d, list |-> <<>>]
RList(l) == [kind |-> "list", data |-> <<>>, list |-> l]

(***************************************************************************)
(* iOS: Keychain services as used by SecureStorage                         *)
(***************************************************************************)
NoItem == [present |-> FALSE, data |-> <<>>, accessible |-> "none"]
WhenUnlockedThisDeviceOnly == "kSecAttrAccessibleWhenUnlockedThisDeviceOnly"

\* the account of an item of the service that is not a String (an item added to
\* the service by other code of the application)
RawAccount == <<"not-a-string">>
AccountIds == Keys \cup {RawAccount}

\* item[kSecAttrAccount] as? String
AccountIsString(a) == a # RawAccount

EmptyKeychain == [s \in Services |-> [k \in AccountIds |-> NoItem]]

\* an item of this accessibility can be read and written only while the device
\* is unlocked
Protected(item) == item.accessible = WhenUnlockedThisDeviceOnly

\* SecItemAdd without kSecAttrAccessibleWhenUnlockedThisDeviceOnly in the
\* query: the item is available whatever the lock state
SecItemAddAlways(kc, svc, key, data, fault) ==
    IF fault THEN [status |-> "errSecOther", kc |-> kc]
    ELSE IF kc[svc][key].present THEN [status |-> "errSecDuplicateItem", kc |-> kc]
    ELSE [status |-> "errSecSuccess",
          kc |-> [kc EXCEPT ![svc][key] =
                    [present |-> TRUE, data |-> data, accessible |-> "kSecAttrAccessibleAlways"]]]

\* SecItemAdd of a generic password (service, account) with data and accessibility
SecItemAdd(kc, svc, key, data, fault) ==
    IF fault THEN [status |-> "errSecOther", kc |-> kc]
    ELSE IF deviceLocked THEN [status |-> "errSecInteractionNotAllowed", kc |-> kc]
    ELSE IF kc[svc][key].present THEN [status |-> "errSecDuplicateItem", kc |-> kc]
    ELSE [status |-> "errSecSuccess",
          kc |-> [kc EXCEPT ![svc][key] =
                    [present |-> TRUE, data |-> data, accessible |-> WhenUnlockedThisDeviceOnly]]]

\* SecItemUpdate of the item matching (service, account): only kSecValueData changes
SecItemUpdate(kc, svc, key, data, fault) ==
    IF fault THEN [status |-> "errSecOther", kc |-> kc]
    ELSE IF ~kc[svc][key].present THEN [status |-> "errSecItemNotFound", kc |-> kc]
    ELSE IF deviceLocked /\ Protected(kc[svc][key])
         THEN [status |-> "errSecInteractionNotAllowed", kc |-> kc]
    ELSE [status |-> "errSecSuccess", kc |-> [kc EXCEPT ![svc][key].data = data]]

\* SecItemCopyMatching for one (service, account), returning the data
SecItemCopyMatchingOne(kc, svc, key, fault) ==
    IF fault THEN [status |-> "errSecOther", data |-> <<>>]
    ELSE IF ~kc[svc][key].present THEN [status |-> "errSecItemNotFound", data |-> <<>>]
    ELSE IF deviceLocked /\ Protected(kc[svc][key])
         THEN [status |-> "errSecInteractionNotAllowed", data |-> <<>>]
    ELSE [status |-> "errSecSuccess", data |-> kc[svc][key].data]

\* SecItemDelete of every item matching a query: one account, or the whole service
SecItemDelete(kc, svc, accounts, fault) ==
    IF fault THEN [status |-> "errSecOther", kc |-> kc]
    ELSE IF \A k \in accounts : ~kc[svc][k].present THEN [status |-> "errSecItemNotFound", kc |-> kc]
    ELSE [status |-> "errSecSuccess",
          kc |-> [kc EXCEPT ![svc] =
                    [k \in AccountIds |-> IF k \in accounts THEN NoItem ELSE kc[svc][k]]]]

\* accounts of the items of a service: of every item, and of those whose
\* account is a String
Items(kc, svc) == { k \in AccountIds : kc[svc][k].present }
Accounts(kc, svc) == { k \in Keys : kc[svc][k].present }

\* put that reports success on a duplicate item without updating it
IOSPutKeepsOld(kc, svc, key, data, fAdd, fUpd) ==
    LET a == SecItemAdd(kc, svc, key, data, fAdd)
    IN  [res |-> IF a.status \in {"errSecSuccess", "errSecDuplicateItem"} THEN ROk ELSE RThrow,
         kc |-> a.kc]

\* put without the overwrite branch: a duplicate item is an error
IOSPutNoOverwrite(kc, svc, key, data, fAdd, fUpd) ==
    LET a == SecItemAdd(kc, svc, key, data, fAdd)
    IN  [res |-> IF a.status = "errSecSuccess" THEN ROk ELSE RThrow, kc |-> a.kc]

\* SecureStorage.put: add, and on a duplicate item update the existing one
IOSPut(kc, svc, key, data, fAdd, fUpd) ==
    LET a == SecItemAdd(kc, svc, key, data, fAdd)
        u == SecItemUpdate(a.kc, svc, key, data, fUpd)
        status == IF a.status = "errSecDuplicateItem" THEN u.status ELSE a.status
        kc2 == IF a.status = "errSecDuplicateItem" THEN u.kc ELSE a.kc
    IN  [res |-> IF status = "errSecSuccess" THEN ROk ELSE RThrow, kc |-> kc2]

\* get without the errSecItemNotFound branch: a missing item is thrown
IOSGetStrict(kc, svc, key, fault) ==
    LET r == SecItemCopyMatchingOne(kc, svc, key, fault)
    IN  IF r.status # "errSecSuccess" THEN RThrow ELSE RData(r.data)

\* SecureStorage.get: nil when the item is not found
IOSGet(kc, svc, key, fault) ==
    LET r == SecItemCopyMatchingOne(kc, svc, key, fault)
    IN  IF r.status = "errSecItemNotFound" THEN RNil
        ELSE IF r.status # "errSecSuccess" THEN RThrow
        ELSE RData(r.data)

\* remove that reports success whatever the status of the deletion
IOSRemoveSwallows(kc, svc, key, fault) ==
    [res |-> ROk, kc |-> SecItemDelete(kc, svc, {key}, fault).kc]

\* remove that does not ignore errSecItemNotFound
IOSRemoveStrict(kc, svc, key, fault) ==
    LET d == SecItemDelete(kc, svc, {key}, fault)
    IN  [res |-> IF d.status = "errSecSuccess" THEN ROk ELSE RThrow, kc |-> d.kc]

\* remove whose query has no kSecAttrAccount: deletes every item of the service
IOSRemoveNoAccount(kc, svc, key, fault) ==
    LET d == SecItemDelete(kc, svc, AccountIds, fault)
    IN  [res |-> IF d.status \in {"errSecSuccess", "errSecItemNotFound"} THEN ROk ELSE RThrow,
         kc |-> d.kc]

\* SecureStorage.remove: errSecItemNotFound is ignored
IOSRemove(kc, svc, key, fault) ==
    LET d == SecItemDelete(kc, svc, {key}, fault)
    IN  [res |-> IF d.status \in {"errSecSuccess", "errSecItemNotFound"} THEN ROk ELSE RThrow,
         kc |-> d.kc]

\* IOSClear whose query has no kSecAttrService: deletes the items of every service
IOSClearEveryService(kc, svc, fault) ==
    IF fault THEN [res |-> RThrow, kc |-> kc]
    ELSE [res |-> ROk, kc |-> [s \in Services |-> [k \in AccountIds |-> NoItem]]]

\* clear that reports success whatever the status of the deletion
IOSClearSwallows(kc, svc, fault) ==
    [res |-> ROk, kc |-> SecItemDelete(kc, svc, AccountIds, fault).kc]

\* clear that does not ignore errSecItemNotFound
IOSClearStrict(kc, svc, fault) ==
    LET d == SecItemDelete(kc, svc, AccountIds, fault)
    IN  [res |-> IF d.status = "errSecSuccess" THEN ROk ELSE RThrow, kc |-> d.kc]

\* SecureStorage.clear: deletes every item of the service, errSecItemNotFound is ignored
IOSClear(kc, svc, fault) ==
    LET d == SecItemDelete(kc, svc, AccountIds, fault)
    IN  [res |-> IF d.status \in {"errSecSuccess", "errSecItemNotFound"} THEN ROk ELSE RThrow,
         kc |-> d.kc]

\* keys without kSecMatchLimitAll: only the first matching item is returned
IOSKeysLimitOne(kc, svc, order, fault) ==
    IF fault THEN RThrow
    ELSE IF Items(kc, svc) = {} THEN RList(<<>>)
    ELSE RList(SelectSeq(<<order[1]>>, AccountIsString))

\* keys that fails when an item has an account that is not a String
IOSKeysFailsOnInvalid(kc, svc, order, fault) ==
    IF fault THEN RThrow
    ELSE IF Items(kc, svc) = {} THEN RList(<<>>)
    ELSE IF \E i \in 1..Len(order) : ~AccountIsString(order[i]) THEN RThrow
    ELSE RList(order)

\* SecureStorage.keys: the accounts of the matching items, in the order the
\* Keychain returns them (order), skipping those that are not a String; []
\* when nothing matches
IOSKeys(kc, svc, order, fault) ==
    IF fault THEN RThrow
    ELSE IF Items(kc, svc) = {} THEN RList(<<>>)
    ELSE RList(SelectSeq(order, AccountIsString))

(***************************************************************************)
(* Android core, modelled from the written specification                   *)
(***************************************************************************)
Manual == "Manual"
Automatic == "Automatic"

NoFile == [present |-> FALSE, bytes |-> <<>>]
File(b) == [present |-> TRUE, bytes |-> b]

\* KeyNameCodec.encode: percent-style escaping of the characters that are not
\* file-name safe (the escape character included)
RECURSIVE EncodeName(_)
EncodeName(key) ==
    IF key = <<>> THEN <<>>
    ELSE IF Head(key) = SafeChar THEN <<Head(key)>> \o EncodeName(Tail(key))
    ELSE <<EscChar, Head(key)>> \o EncodeName(Tail(key))

\* decode that ignores a dangling escape at the end of a name
RECURSIVE DecodeNameLenient(_)
DecodeNameLenient(name) ==
    IF name = <<>> THEN [valid |-> TRUE, key |-> <<>>]
    ELSE IF Head(name) = SafeChar
         THEN LET r == DecodeNameLenient(Tail(name))
              IN  [valid |-> r.valid, key |-> <<Head(name)>> \o r.key]
    ELSE IF Head(name) = EscChar /\ Len(name) = 1 THEN [valid |-> TRUE, key |-> <<>>]
    ELSE IF Head(name) = EscChar /\ Len(name) >= 2 /\ name[2] # SafeChar
         THEN LET r == DecodeNameLenient(Tail(Tail(name)))
              IN  [valid |-> r.valid, key |-> <<name[2]>> \o r.key]
    ELSE [valid |-> FALSE, key |-> <<>>]

\* KeyNameCodec.decode: the key, or invalid for a name encode never produces
RECURSIVE DecodeName(_)
DecodeName(name) ==
    IF name = <<>> THEN [valid |-> TRUE, key |-> <<>>]
    ELSE IF Head(name) = SafeChar
         THEN LET r == DecodeName(Tail(name))
              IN  [valid |-> r.valid, key |-> <<Head(name)>> \o r.key]
    ELSE IF Head(name) = EscChar /\ Len(name) >= 2 /\ name[2] # SafeChar
         THEN LET r == DecodeName(Tail(Tail(name)))
              IN  [valid |-> r.valid, key |-> <<name[2]>> \o r.key]
    ELSE [valid |-> FALSE, key |-> <<>>]

\* a directory entry that is not an encoded key (a dangling escape)
BookkeepingName == <<EscChar>>

\* FileStore.write: the temporary file of a key, in the same directory; its
\* name is the final name followed by a dangling escape, which decodes to no key
TmpName(key) == EncodeName(key) \o <<EscChar>>

FileNames == { EncodeName(k) : k \in Keys } \cup { TmpName(k) : k \in Keys } \cup {BookkeepingName}

EmptyDir == [n \in FileNames |-> NoFile]

\* FormatTag: the magic prefix of a manually encrypted file.  The tag is
\* improbable in plaintext: the bytes of Values and of UTF-8 text are below 3,
\* so no value a caller stores begins with it.
FormatTag == <<3, 3>>

HasFormatTag(s) == Len(s) >= Len(FormatTag) /\ SubSeq(s, 1, Len(FormatTag)) = FormatTag

\* ChunkedCipherEngine: split into chunks of ChunkSize; an empty value is one empty chunk
RECURSIVE Chunks(_)
Chunks(p) ==
    IF Len(p) <= ChunkSize THEN <<p>>
    ELSE <<SubSeq(p, 1, ChunkSize)>> \o Chunks(SubSeq(p, ChunkSize + 1, Len(p)))

\* authenticated encryption of one chunk under (key, nonce): ciphertext and tag
EncBytes(c, key, nonce) == [i \in 1..Len(c) |-> (c[i] + key + nonce) % ByteMod]
DecBytes(ct, key, nonce) == [i \in 1..Len(ct) |-> (ct[i] + 2 * ByteMod - key - nonce) % ByteMod]
Mac(ct, key, nonce) == (Sum(ct) + Len(ct) + 2 * key + nonce) % ByteMod

\* one chunk record: length prefix, nonce, ciphertext + tag
ChunkRecord(c, key, nonce) ==
    LET ct == EncBytes(c, key, nonce)
    IN  <<Len(ct) + 1, nonce>> \o ct \o <<Mac(ct, key, nonce)>>

\* encrypt: FormatTag once, then one record per chunk, each with its own nonce
Encrypt(p, key, nonces) ==
    LET cs == Chunks(p)
    IN  FormatTag \o Concat([i \in 1..Len(cs) |-> ChunkRecord(cs[i], key, nonces[i])])

\* decrypt the records that follow the FormatTag; any malformed or
\* unauthenticated record fails the whole decryption
RECURSIVE DecryptRecords(_, _)
DecryptRecords(s, key) ==
    IF s = <<>> THEN [ok |-> TRUE, data |-> <<>>]
    ELSE IF Len(s) < 2 \/ s[1] < 1 \/ Len(s) < 2 + s[1] THEN [ok |-> FALSE, data |-> <<>>]
    ELSE LET n == s[1]
             nonce == s[2]
             ct == SubSeq(s, 3, 1 + n)
             tag == s[2 + n]
             rest == DecryptRecords(SubSeq(s, 3 + n, Len(s)), key)
         IN  IF tag # Mac(ct, key, nonce) \/ ~rest.ok THEN [ok |-> FALSE, data |-> <<>>]
             ELSE [ok |-> TRUE, data |-> DecBytes(ct, key, nonce) \o rest.data]

Decrypt(s, key) == DecryptRecords(SubSeq(s, Len(FormatTag) + 1, Len(s)), key)

\* ResolveMode that takes a failed inspection for an encrypted directory
ResolveModeTrustsUnknown(enforce, dirEnc) ==
    IF enforce THEN Manual
    ELSE IF dirEnc \in {"yes", "unknown"} THEN Automatic
    ELSE Manual

\* EncryptionModeSelector.resolve
ResolveMode(enforce, dirEnc) ==
    IF enforce THEN Manual
    ELSE IF dirEnc = "yes" THEN Automatic
    ELSE Manual

NoStore == [built |-> FALSE, mode |-> "none"]

\* SecureStorage.Builder.build: fails when the hardware key facility is unavailable
ABuild(enforce, dirEnc, facility) ==
    IF facility THEN [ok |-> TRUE, store |-> [built |-> TRUE, mode |-> ResolveMode(enforce, dirEnc)]]
    ELSE [ok |-> FALSE, store |-> NoStore]

\* SecureStorageEngine.put: in Manual mode encrypt under the key of the alias
\* (generated on first use), then write the whole stream under the encoded name
APut(fs, ks, st, key, data, nonces, newKey, fault) ==
    LET km == IF ks = 0 THEN newKey ELSE ks
        stream == IF st.mode = Manual THEN Encrypt(data, km, nonces) ELSE data
    IN  IF fault THEN [res |-> RThrow, fs |-> fs, ks |-> ks]
        ELSE [res |-> ROk,
              fs |-> [fs EXCEPT ![EncodeName(key)] = File(stream)],
              ks |-> IF st.mode = Manual THEN km ELSE ks]

\* AGet that decodes by the mode of the store instead of the FormatTag
AGetByMode(fs, ks, key, fault) ==
    LET f == fs[EncodeName(key)]
        d == Decrypt(f.bytes, ks)
    IN  IF fault THEN RThrow
        ELSE IF ~f.present THEN RNil
        ELSE IF store[DirTest].mode # Manual THEN RData(f.bytes)
        ELSE IF ks = 0 \/ ~d.ok THEN RThrow
        ELSE RData(d.data)

\* SecureStorageEngine.get: absent -> not found; FormatTag present -> decrypt; else raw bytes
AGet(fs, ks, key, fault) ==
    LET f == fs[EncodeName(key)]
        d == Decrypt(f.bytes, ks)
    IN  IF fault THEN RThrow
        ELSE IF ~f.present THEN RNil
        ELSE IF ~HasFormatTag(f.bytes) THEN RData(f.bytes)
        ELSE IF ks = 0 \/ ~d.ok THEN RThrow
        ELSE RData(d.data)

\* SecureStorageEngine.remove: a missing file is not an error
ARemove(fs, key, fault) ==
    IF fault THEN [res |-> RThrow, fs |-> fs]
    ELSE [res |-> ROk, fs |-> [fs EXCEPT ![EncodeName(key)] = NoFile]]

\* SecureStorageEngine.clear: deletes every entry of the directory
AClear(fs, fault) ==
    IF fault THEN [res |-> RThrow, fs |-> fs]
    ELSE [res |-> ROk, fs |-> [n \in FileNames |-> NoFile]]

\* the keys the directory entries decode to; entries that do not decode are skipped
ListedKeys(fs) == { DecodeName(n).key : n \in { m \in FileNames : fs[m].present /\ DecodeName(m).valid } }

\* the entries of the directory
PresentNames(fs) == { n \in FileNames : fs[n].present }

NameIsKey(n) == DecodeName(n).valid

\* SecureStorageEngine.keys: the entries in the order the directory is
\* enumerated (order), each decoded, those that do not decode skipped
AKeys(fs, order, fault) ==
    LET names == SelectSeq(order, NameIsKey)
    IN  IF fault THEN RThrow
        ELSE RList([i \in 1..Len(names) |-> DecodeName(names[i]).key])

\* no put in progress.  step: "write" while the temporary file is written,
\* "renamed" once it has replaced the final file (Android); "update" when
\* SecItemAdd found a duplicate, "return" once the Keychain calls are made
\* (iOS); call: the bridge call the put belongs to, 0 for a direct call
NoWrite == [active |-> FALSE, ns |-> "none", key |-> <<>>, val |-> <<>>, stream |-> <<>>,
            step |-> "none", res |-> ROk, call |-> 0]

(***************************************************************************)
(* Bookkeeping of the calls made (not program state)                       *)
(***************************************************************************)
NoCall == [ns |-> "none", op |-> "none", key |-> <<>>, val |-> <<>>, fault |-> FALSE,
           existed |-> FALSE, old |-> <<>>, enforce |-> FALSE, locked |-> FALSE, res |-> ROk]

Absent == [present |-> FALSE, data |-> <<>>]
Present(v) == [present |-> TRUE, data |-> v]

\* the store the abstract map follows: the one the unit tests of the platform use
TestNs == IF platform = "ios" THEN ServiceTest ELSE DirTest

\* record a completed call on the store of namespace ns; the abstract map
\* follows the successful writes on the test store only (old: for a put, the
\* value the key had before); reopened is reset by a successful put
Observe(ns, op, k, v, fault, existed, res) ==
    /\ last' = [ns |-> ns, op |-> op, key |-> k, val |-> v, fault |-> fault,
                existed |-> existed,
                old |-> IF op = "put" /\ ns = TestNs THEN shadow[k].data ELSE <<>>,
                enforce |-> FALSE, locked |-> deviceLocked, res |-> res]
    /\ shadow' = IF res.kind # "ok" \/ ns # TestNs THEN shadow
                 ELSE IF op = "put" THEN [shadow EXCEPT ![k] = Present(v)]
                 ELSE IF op = "remove" THEN [shadow EXCEPT ![k] = Absent]
                 ELSE IF op = "clear" THEN [x \in Keys |-> Absent]
                 ELSE shadow
    /\ reopened' = IF res.kind = "ok" /\ ns = TestNs /\ op = "put" THEN FALSE ELSE reopened
    /\ tampered' = IF res.kind # "ok" \/ ns # TestNs THEN tampered
                   ELSE IF op \in {"put", "remove"} THEN tampered \ {k}
                   ELSE IF op = "clear" THEN {}
                   ELSE tampered

\* record the creation of an instance over namespace ns
ObserveInstance(ns, enforce) ==
    /\ last' = [NoCall EXCEPT !.ns = ns, !.op = "build", !.enforce = enforce]
    /\ reopened' = IF ns = TestNs THEN TRUE ELSE reopened
    /\ shadow' = shadow
    /\ tampered' = tampered

\* revisions of the Android bridge kept in the tree: the current one, the one
\* before it (no REMOVE_FAILED code, setEnforceManualEncryption without
\* argument) and the first one (handlers that never resolve)
RevCurrent == "current"
RevPrevious == "previous"
RevFirst == "first"

(***************************************************************************)
(* Spec: the cores called directly, one call at a time                     *)
(***************************************************************************)
CoreInit ==
    /\ platform \in {"ios", "android"}
    /\ keychain = EmptyKeychain
    /\ files = [d \in Dirs |-> EmptyDir]
    /\ keystore = [d \in Dirs |-> 0]
    /\ dirEncrypted \in (IF platform = "android" THEN {"yes", "no", "unknown"} ELSE {"yes"})
    /\ facilityOK \in (IF platform = "android" THEN BOOLEAN ELSE {TRUE})
    /\ store = [d \in Dirs |-> NoStore]
    /\ last = NoCall
    /\ shadow = [k \in Keys |-> Absent]
    /\ reopened = FALSE
    /\ tampered = {}
    /\ forceManualEncryption = FALSE
    /\ lazy = "uninit"
    /\ builtOn = "none"
    /\ calls = <<>>
    /\ queue = <<>>
    /\ variant = RevCurrent
    /\ builds = 0
    /\ forceAtFirstOp = FALSE
    /\ jsCalls = <<>>
    /\ deviceLocked = FALSE
    /\ pending = NoWrite

\* IOSCoreInit when creating an instance wiped the items of its service
IOSCoreInitWipes(svc) ==
    /\ platform = "ios"
    /\ keychain' = [keychain EXCEPT ![svc] = [k \in AccountIds |-> NoItem]]
    /\ ObserveInstance(svc, FALSE)
    /\ UNCHANGED <<writeVars, jsVars, files, keystore, store, envVars, bridgeVars>>

\* SecureStorage(serviceName:): the instance holds the service name only
IOSCoreInit(svc) ==
    /\ platform = "ios"
    /\ ObserveInstance(svc, FALSE)
    /\ UNCHANGED <<writeVars, jsVars, coreVars, envVars, bridgeVars>>

IOSCorePut(svc, k, v, fAdd, fUpd) ==
    /\ platform = "ios"
    /\ LET existed == keychain[svc][k].present
           r == IOSPut(keychain, svc, k, v, fAdd, fUpd)
       IN  /\ keychain' = r.kc
           /\ Observe(svc, "put", k, v, fAdd \/ (existed /\ fUpd), existed, r.res)
    /\ UNCHANGED <<writeVars, jsVars, files, keystore, store, envVars, bridgeVars>>

IOSCoreGet(svc, k, fault) ==
    /\ platform = "ios"
    /\ Observe(svc, "get", k, <<>>, fault, keychain[svc][k].present,
               IOSGet(keychain, svc, k, fault))
    /\ UNCHANGED <<writeVars, jsVars, coreVars, envVars, bridgeVars>>

IOSCoreRemove(svc, k, fault) ==
    /\ platform = "ios"
    /\ LET r == IOSRemove(keychain, svc, k, fault)
       IN  /\ keychain' = r.kc
           /\ Observe(svc, "remove", k, <<>>, fault, keychain[svc][k].present, r.res)
    /\ UNCHANGED <<writeVars, jsVars, files, keystore, store, envVars, bridgeVars>>

IOSCoreClear(svc, fault) ==
    /\ platform = "ios"
    /\ LET r == IOSClear(keychain, svc, fault)
       IN  /\ keychain' = r.kc
           /\ Observe(svc, "clear", <<>>, <<>>, fault, Accounts(keychain, svc) # {}, r.res)
    /\ UNCHANGED <<writeVars, jsVars, files, keystore, store, envVars, bridgeVars>>

IOSCoreKeys(svc, fault) ==
    /\ platform = "ios"
    /\ \E order \in Orders(Items(keychain, svc)) :
          Observe(svc, "keys", <<>>, <<>>, fault, Accounts(keychain, svc) # {},
                  IOSKeys(keychain, svc, order, fault))
    /\ UNCHANGED <<writeVars, jsVars, coreVars, envVars, bridgeVars>>

\* SecureStorage.Builder(context, storageDir).setEnforceManualEncryption(enforce).build()
ACoreBuild(d, enforce) ==
    /\ platform = "android"
    /\ LET b == ABuild(enforce, dirEncrypted, facilityOK)
       IN  /\ b.ok
           /\ store' = [store EXCEPT ![d] = b.store]
    /\ ObserveInstance(d, enforce)
    /\ UNCHANGED <<writeVars, jsVars, keychain, files, keystore, envVars, bridgeVars>>

\* the random draws a put makes: one nonce per chunk, and the key material when
\* the key of the alias is generated (Manual mode only)
NonceChoices(st, v, fault) ==
    IF st.mode = Manual /\ ~fault THEN [1..Len(Chunks(v)) -> Nonces]
    ELSE {[i \in 1..Len(Chunks(v)) |-> 0]}

KeyChoices(st, ks, fault) ==
    IF st.mode = Manual /\ ks = 0 /\ ~fault THEN KeyMaterial ELSE {1}

ACorePut(d, k, v, fault) ==
    /\ platform = "android"
    /\ store[d].built
    /\ \E nonces \in NonceChoices(store[d], v, fault),
          newKey \in KeyChoices(store[d], keystore[d], fault) :
          LET r == APut(files[d], keystore[d], store[d], k, v, nonces, newKey, fault)
          IN  /\ files' = [files EXCEPT ![d] = r.fs]
              /\ keystore' = [keystore EXCEPT ![d] = r.ks]
              /\ Observe(d, "put", k, v, fault, files[d][EncodeName(k)].present, r.res)
    /\ UNCHANGED <<writeVars, jsVars, keychain, store, envVars, bridgeVars>>

ACoreGet(d, k, fault) ==
    /\ platform = "android"
    /\ store[d].built
    /\ Observe(d, "get", k, <<>>, fault, files[d][EncodeName(k)].present,
               AGet(files[d], keystore[d], k, fault))
    /\ UNCHANGED <<writeVars, jsVars, coreVars, envVars, bridgeVars>>

ACoreRemove(d, k, fault) ==
    /\ platform = "android"
    /\ store[d].built
    /\ LET r == ARemove(files[d], k, fault)
       IN  /\ files' = [files EXCEPT ![d] = r.fs]
           /\ Observe(d, "remove", k, <<>>, fault, files[d][EncodeName(k)].present, r.res)
    /\ UNCHANGED <<writeVars, jsVars, keychain, keystore, store, envVars, bridgeVars>>

ACoreClear(d, fault) ==
    /\ platform = "android"
    /\ store[d].built
    /\ LET r == AClear(files[d], fault)
       IN  /\ files' = [files EXCEPT ![d] = r.fs]
           /\ Observe(d, "clear", <<>>, <<>>, fault, ListedKeys(files[d]) # {}, r.res)
    /\ UNCHANGED <<writeVars, jsVars, keychain, keystore, store, envVars, bridgeVars>>

ACoreKeys(d, fault) ==
    /\ platform = "android"
    /\ store[d].built
    /\ \E order \in Orders(PresentNames(files[d])) :
          Observe(d, "keys", <<>>, <<>>, fault, ListedKeys(files[d]) # {},
                  AKeys(files[d], order, fault))
    /\ UNCHANGED <<writeVars, jsVars, coreVars, envVars, bridgeVars>>

CoreNext ==
    \/ IOSCoreInit(ServiceTest)
    \/ \E k \in Keys, v \in Values, fAdd \in BOOLEAN, fUpd \in BOOLEAN :
          IOSCorePut(ServiceTest, k, v, fAdd, fUpd)
    \/ \E k \in Keys, fault \in BOOLEAN : IOSCoreGet(ServiceTest, k, fault)
    \/ \E k \in Keys, fault \in BOOLEAN : IOSCoreRemove(ServiceTest, k, fault)
    \/ \E fault \in BOOLEAN : IOSCoreClear(ServiceTest, fault)
    \/ \E fault \in BOOLEAN : IOSCoreKeys(ServiceTest, fault)
    \/ \E enforce \in BOOLEAN : ACoreBuild(DirTest, enforce)
    \/ \E k \in Keys, v \in Values, fault \in BOOLEAN : ACorePut(DirTest, k, v, fault)
    \/ \E k \in Keys, fault \in BOOLEAN : ACoreGet(DirTest, k, fault)
    \/ \E k \in Keys, fault \in BOOLEAN : ACoreRemove(DirTest, k, fault)
    \/ \E fault \in BOOLEAN : ACoreClear(DirTest, fault)
    \/ \E fault \in BOOLEAN : ACoreKeys(DirTest, fault)

Spec == CoreInit /\ [][CoreNext]_vars

(***************************************************************************)
(* SpecStores: two stores side by side, one per service name / directory   *)
(***************************************************************************)
\* the keys and values the two stores are driven with (no platform failure)
StoreKeys == IF platform = "ios" THEN Keys ELSE {K2}
StoreValues == {<<1>>, Fill(ChunkSize + 1, 0)}

StoresInit ==
    /\ CoreInit
    /\ dirEncrypted = "yes"
    /\ facilityOK

StoresNext ==
    \/ \E svc \in Services, k \in StoreKeys, v \in StoreValues : IOSCorePut(svc, k, v, FALSE, FALSE)
    \/ \E svc \in Services, k \in StoreKeys : IOSCoreGet(svc, k, FALSE)
    \/ \E svc \in Services, k \in StoreKeys : IOSCoreRemove(svc, k, FALSE)
    \/ \E svc \in Services : IOSCoreClear(svc, FALSE)
    \/ \E svc \in Services : IOSCoreKeys(svc, FALSE)
    \/ \E d \in Dirs, enforce \in BOOLEAN : ACoreBuild(d, enforce)
    \/ \E d \in Dirs, k \in StoreKeys, v \in StoreValues : ACorePut(d, k, v, FALSE)
    \/ \E d \in Dirs, k \in StoreKeys : ACoreGet(d, k, FALSE)
    \/ \E d \in Dirs, k \in StoreKeys : ACoreRemove(d, k, FALSE)
    \/ \E d \in Dirs : ACoreClear(d, FALSE)
    \/ \E d \in Dirs : ACoreKeys(d, FALSE)

SpecStores == StoresInit /\ [][StoresNext]_vars

(***************************************************************************)
(* SpecTamper: a manually encrypted directory whose files are changed      *)
(* behind the store                                                        *)
(***************************************************************************)
\* positions of the ciphertext and tag bytes of the chunk records of a
\* well-formed stream, the record at offset off onwards
RECURSIVE CipherPositions(_, _)
CipherPositions(s, off) ==
    IF off > Len(s) THEN {}
    ELSE (off + 2)..(off + 1 + s[off]) \cup CipherPositions(s, off + 2 + s[off])

TamperInit ==
    /\ CoreInit
    /\ platform = "android"
    /\ dirEncrypted = "no"
    /\ facilityOK

\* one byte of the ciphertext or tag of a chunk of the file of key k is changed
ATamperByte(d, k, pos, b) ==
    /\ platform = "android"
    /\ k \notin tampered
    /\ LET f == files[d][EncodeName(k)]
       IN  /\ f.present
           /\ HasFormatTag(f.bytes)
           /\ pos \in CipherPositions(f.bytes, Len(FormatTag) + 1)
           /\ b # f.bytes[pos]
           /\ files' = [files EXCEPT ![d][EncodeName(k)] = File([f.bytes EXCEPT ![pos] = b])]
    /\ tampered' = tampered \cup {k}
    /\ last' = [NoCall EXCEPT !.ns = d, !.op = "tamper", !.key = k]
    /\ UNCHANGED <<writeVars, jsVars, keychain, keystore, store, shadow, reopened, envVars, bridgeVars>>

\* the file of key k is cut to its first n bytes
ATruncate(d, k, n) ==
    /\ platform = "android"
    /\ k \notin tampered
    /\ LET f == files[d][EncodeName(k)]
       IN  /\ f.present
           /\ HasFormatTag(f.bytes)
           /\ n < Len(f.bytes)
           /\ files' = [files EXCEPT ![d][EncodeName(k)] = File(SubSeq(f.bytes, 1, n))]
    /\ tampered' = tampered \cup {k}
    /\ last' = [NoCall EXCEPT !.ns = d, !.op = "tamper", !.key = k]
    /\ UNCHANGED <<writeVars, jsVars, keychain, keystore, store, shadow, reopened, envVars, bridgeVars>>

\* the positions of the longest stream a put of a value of Values writes: the
\* FormatTag and two chunk records
StreamPositions == 1..(Len(FormatTag) + (ChunkSize + 1) + 3 + 3)

TamperNext ==
    \/ \E enforce \in BOOLEAN : ACoreBuild(DirTest, enforce)
    \/ \E v \in Values : ACorePut(DirTest, K1, v, FALSE)
    \/ ACoreGet(DirTest, K1, FALSE)
    \/ \E pos \in StreamPositions, b \in 0..(ByteMod - 1) : ATamperByte(DirTest, K1, pos, b)
    \/ \E n \in {0} \cup StreamPositions : ATruncate(DirTest, K1, n)

SpecTamper == TamperInit /\ [][TamperNext]_vars

\* what a caller can observe of the store of a namespace: get of every key,
\* and the key set
GetViewOf(ns, k) ==
    IF platform = "ios" THEN IOSGet(keychain, ns, k, FALSE)
    ELSE AGet(files[ns], keystore[ns], k, FALSE)

KeysViewOf(ns) ==
    IF platform = "ios" THEN Accounts(keychain, ns) ELSE ListedKeys(files[ns])

ViewOf(ns) == <<KeysViewOf(ns), [k \in Keys |-> GetViewOf(ns, k)]>>

Namespaces == IF platform = "ios" THEN Services ELSE Dirs

\* everything get and keys of a namespace read: the Keychain items of the
\* service, or the files of the directory and the key of its alias
Backing(ns) == IF platform = "ios" THEN keychain[ns] ELSE <<files[ns], keystore[ns]>>

GetView(k) == GetViewOf(TestNs, k)

KeysView == KeysViewOf(TestNs)

TypeOK ==
    /\ platform \in {"ios", "android", "web", "windows"}
    /\ \A k \in Keys : shadow[k].present => shadow[k].data \in Values
    /\ variant \in {RevCurrent, RevPrevious, RevFirst}
    /\ builds \in 0..1
    /\ forceAtFirstOp \in BOOLEAN
    /\ Len(jsCalls) <= MaxJSCalls
    /\ reopened \in BOOLEAN
    /\ deviceLocked \in BOOLEAN
    /\ pending.active \in BOOLEAN
    /\ tampered \subseteq Keys
    /\ \A d \in Dirs : store[d].mode \in {"none", Manual, Automatic}

(***************************************************************************)
(* The bridges: strings cross the boundary as UTF-8                        *)
(***************************************************************************)
\* code points of JavaScript strings: an ASCII one (one byte in UTF-8), one that
\* takes two bytes, and U+FFFD
Ascii == "a"
Wide == "e-acute"
Replacement == "U+FFFD"
Strings == { <<Ascii>>, <<Wide>> }

\* data.data(using: .utf8) / data.toByteArray()
RECURSIVE Utf8Encode(_)
Utf8Encode(str) ==
    IF str = <<>> THEN <<>>
    ELSE (IF Head(str) = Ascii THEN <<1>> ELSE <<2, 0>>) \o Utf8Encode(Tail(str))

\* String(data:encoding: .utf8): nil when the bytes are not valid UTF-8
RECURSIVE Utf8Decode(_)
Utf8Decode(b) ==
    IF b = <<>> THEN [ok |-> TRUE, str |-> <<>>]
    ELSE IF Head(b) = 1
         THEN LET r == Utf8Decode(Tail(b)) IN [ok |-> r.ok, str |-> <<Ascii>> \o r.str]
    ELSE IF Head(b) = 2 /\ Len(b) >= 2 /\ b[2] = 0
         THEN LET r == Utf8Decode(Tail(Tail(b))) IN [ok |-> r.ok, str |-> <<Wide>> \o r.str]
    ELSE [ok |-> FALSE, str |-> <<>>]

\* ByteArray.toString(UTF_8): malformed input is replaced, never an error
RECURSIVE Utf8DecodeLossy(_)
Utf8DecodeLossy(b) ==
    IF b = <<>> THEN <<>>
    ELSE IF Head(b) = 1 THEN <<Ascii>> \o Utf8DecodeLossy(Tail(b))
    ELSE IF Head(b) = 2 /\ Len(b) >= 2 /\ b[2] = 0 THEN <<Wide>> \o Utf8DecodeLossy(Tail(Tail(b)))
    ELSE <<Replacement>> \o Utf8DecodeLossy(Tail(b))

\* promise outcomes
Pending == [kind |-> "pending", code |-> "", str |-> <<>>, list |-> <<>>]
Resolve == [kind |-> "resolve", code |-> "", str |-> <<>>, list |-> <<>>]
ResolveStr(x) == [kind |-> "resolve", code |-> "", str |-> x, list |-> <<>>]
ResolveList(l) == [kind |-> "resolve", code |-> "", str |-> <<>>, list |-> l]
Reject(code) == [kind |-> "reject", code |-> code, str |-> <<>>, list |-> <<>>]

\* ---- iOS bridge: the bodies of the blocks put on the serial queue ----

\* IoReactNativeSecureStorage.put block
IOSBridgePut(kc, key, str, fAdd, fUpd) ==
    LET r == IOSPut(kc, ServiceBridge, key, Utf8Encode(str), fAdd, fUpd)
    IN  [kc |-> r.kc, core |-> r.res,
         outcome |-> IF r.res.kind = "ok" THEN Resolve ELSE Reject("PUT_FAILED")]

\* IoReactNativeSecureStorage.get block
IOSBridgeGet(kc, key, fault) ==
    LET r == IOSGet(kc, ServiceBridge, key, fault)
        d == Utf8Decode(r.data)
    IN  [kc |-> kc, core |-> r,
         outcome |-> IF r.kind = "throw" THEN Reject("GET_FAILED")
                     ELSE IF r.kind = "nil" THEN Reject("VALUE_NOT_FOUND")
                     ELSE IF ~d.ok THEN Reject("GET_FAILED")
                     ELSE ResolveStr(d.str)]

\* IoReactNativeSecureStorage.remove block
IOSBridgeRemove(kc, key, fault) ==
    LET r == IOSRemove(kc, ServiceBridge, key, fault)
    IN  [kc |-> r.kc, core |-> r.res,
         outcome |-> IF r.res.kind = "ok" THEN Resolve ELSE Reject("REMOVE_FAILED")]

\* IoReactNativeSecureStorage.clear block
IOSBridgeClear(kc, fault) ==
    LET r == IOSClear(kc, ServiceBridge, fault)
    IN  [kc |-> r.kc, core |-> r.res,
         outcome |-> IF r.res.kind = "ok" THEN Resolve ELSE Reject("CLEAR_FAILED")]

\* IoReactNativeSecureStorage.keys block (the core throws SecureStorageError only)
IOSBridgeKeys(kc, order, fault) ==
    LET r == IOSKeys(kc, ServiceBridge, order, fault)
    IN  [kc |-> kc, core |-> r,
         outcome |-> IF r.kind = "throw" THEN Reject("KEYS_RETRIEVAL_FAILED")
                     ELSE ResolveList(r.list)]

\* ---- Android bridge: the bodies run once `secureStorage` is not null ----

\* IoReactNativeSecureStorageModule.put
ABridgePut(fs, ks, st, key, str, nonces, newKey, fault) ==
    LET r == APut(fs, ks, st, key, Utf8Encode(str), nonces, newKey, fault)
    IN  [fs |-> r.fs, ks |-> r.ks, core |-> r.res,
         outcome |-> IF r.res.kind = "ok" THEN Resolve ELSE Reject("PUT_FAILED")]

\* IoReactNativeSecureStorageModule.get
ABridgeGet(fs, ks, key, fault) ==
    LET r == AGet(fs, ks, key, fault)
    IN  [fs |-> fs, ks |-> ks, core |-> r,
         outcome |-> IF r.kind = "throw" THEN Reject("GET_FAILED")
                     ELSE IF r.kind = "nil" THEN Reject("VALUE_NOT_FOUND")
                     ELSE ResolveStr(Utf8DecodeLossy(r.data))]

\* IoReactNativeSecureStorageModule.remove
ABridgeRemove(fs, ks, key, fault) ==
    LET r == ARemove(fs, key, fault)
    IN  [fs |-> r.fs, ks |-> ks, core |-> r.res,
         outcome |-> IF r.res.kind = "ok" THEN Resolve ELSE Reject("REMOVE_FAILED")]

\* IoReactNativeSecureStorageModule.clear
ABridgeClear(fs, ks, fault) ==
    LET r == AClear(fs, fault)
    IN  [fs |-> r.fs, ks |-> ks, core |-> r.res,
         outcome |-> IF r.res.kind = "ok" THEN Resolve ELSE Reject("CLEAR_FAILED")]

\* IoReactNativeSecureStorageModule.keys
ABridgeKeys(fs, ks, order, fault) ==
    LET r == AKeys(fs, order, fault)
    IN  [fs |-> fs, ks |-> ks, core |-> r,
         outcome |-> IF r.kind = "throw" THEN Reject("KEYS_RETRIEVAL_FAILED")
                     ELSE ResolveList(r.list)]

\* the previous revision of the module: as the current one, but the catch
\* block of remove rejects with CLEAR_FAILED (r: what the current revision does)
ABridgePrevious(op, r) ==
    IF op = "remove" /\ r.core.kind = "throw"
    THEN [r EXCEPT !.outcome = Reject("CLEAR_FAILED")]
    ELSE r

\* the first revision of the module: get, put, clear and remove never call
\* promise.resolve; a null result of get falls through `?:` to the rejection
\* meant for the missing store; the catch block of remove rejects with
\* CLEAR_FAILED; keys is as in the current revision
ABridgeFirst(op, r) ==
    IF op = "keys" THEN r
    ELSE IF r.core.kind = "throw"
         THEN [r EXCEPT !.outcome = Reject(CASE op = "put" -> "PUT_FAILED"
                                             [] op = "get" -> "GET_FAILED"
                                             [] OTHER -> "CLEAR_FAILED")]
    ELSE IF r.core.kind = "nil"
         THEN [r EXCEPT !.outcome = Reject("SECURE_STORE_NOT_INITIALIZED")]
    ELSE [r EXCEPT !.outcome = Pending]

\* the handler body of the revision under run
ABridgeOf(rev, op, r) ==
    IF rev = RevPrevious THEN ABridgePrevious(op, r)
    ELSE IF rev = RevFirst THEN ABridgeFirst(op, r)
    ELSE r

(***************************************************************************)
(* SpecBridge: calls issued from JavaScript through a bridge               *)
(***************************************************************************)
Worker == "worker"
Caller == "caller"

\* settles: how many times the promise of the call has been resolved or rejected
NewCall(op, k, str, pc, thread) ==
    [op |-> op, key |-> k, str |-> str, pc |-> pc, thread |-> thread,
     existed |-> FALSE, fault |-> FALSE, core |-> ROk, outcome |-> Pending,
     settles |-> 0]

Settles(outcome) == IF outcome.kind = "pending" THEN 0 ELSE 1

Running == { i \in DOMAIN calls : calls[i].pc = "running" }

\* the caller-facing thread is inside a handler that has not returned
CallerBusy == \E i \in DOMAIN calls : calls[i].thread = Caller /\ calls[i].pc # "done"

\* (the storage directory is taken to be platform-encrypted, the case in which
\* forceManualEncryption decides the mode)
BridgeStart ==
    /\ platform \in {"ios", "android"}
    /\ keychain = EmptyKeychain
    /\ files = [d \in Dirs |-> EmptyDir]
    /\ keystore = [d \in Dirs |-> 0]
    /\ dirEncrypted = "yes"
    /\ facilityOK \in (IF platform = "android" THEN BOOLEAN ELSE {TRUE})
    /\ store = [d \in Dirs |-> NoStore]
    /\ last = NoCall
    /\ shadow = [k \in Keys |-> Absent]
    /\ reopened = FALSE
    /\ tampered = {}
    /\ forceManualEncryption = FALSE
    /\ lazy = "uninit"
    /\ builtOn = "none"
    /\ calls = <<>>
    /\ queue = <<>>
    /\ builds = 0
    /\ forceAtFirstOp = FALSE
    /\ jsCalls = <<>>
    /\ deviceLocked = FALSE
    /\ pending = NoWrite

\* the current revision of both bridges
BridgeInit ==
    /\ BridgeStart
    /\ variant = RevCurrent

\* any revision of the Android bridge kept in the tree
VariantInit ==
    /\ BridgeStart
    /\ variant \in (IF platform = "android" THEN {RevCurrent, RevPrevious, RevFirst}
                    ELSE {RevCurrent})

\* iOS: every exported method only puts its block on the serial queue
IOSSubmit(op, k, str) ==
    /\ platform = "ios"
    /\ Len(calls) < MaxCalls
    /\ calls' = Append(calls, NewCall(op, k, str, "queued", Worker))
    /\ queue' = Append(queue, Len(calls) + 1)
    /\ UNCHANGED <<writeVars, jsVars, coreVars, envVars, ghostVars, forceManualEncryption, lazy, builtOn, builds, forceAtFirstOp>>

\* IOSQueueStart of a concurrent queue: the next block starts whether or not
\* another block is running
IOSQueueStartConcurrent ==
    /\ platform = "ios"
    /\ queue # <<>>
    /\ calls' = [calls EXCEPT ![Head(queue)].pc = "running"]
    /\ queue' = Tail(queue)
    /\ UNCHANGED <<writeVars, jsVars, coreVars, envVars, ghostVars, forceManualEncryption, lazy, builtOn, builds, forceAtFirstOp>>

\* the serial queue starts its next block when no block is running
IOSQueueStart ==
    /\ platform = "ios"
    /\ queue # <<>>
    /\ Running = {}
    /\ calls' = [calls EXCEPT ![Head(queue)].pc = "running"]
    /\ queue' = Tail(queue)
    /\ UNCHANGED <<writeVars, jsVars, coreVars, envVars, ghostVars, forceManualEncryption, lazy, builtOn, builds, forceAtFirstOp>>

\* the running block does its Keychain work and settles the promise
IOSQueueRun(i, fAdd, fUpd) ==
    /\ platform = "ios"
    /\ i \in Running
    /\ LET c == calls[i]
           ex == IF c.op \in {"clear", "keys"} THEN Accounts(keychain, ServiceBridge) # {}
                 ELSE keychain[ServiceBridge][c.key].present
       IN  \E order \in Orders(Items(keychain, ServiceBridge)) :
             LET r == CASE c.op = "put" -> IOSBridgePut(keychain, c.key, c.str, fAdd, fUpd)
                        [] c.op = "get" -> IOSBridgeGet(keychain, c.key, fAdd)
                        [] c.op = "remove" -> IOSBridgeRemove(keychain, c.key, fAdd)
                        [] c.op = "clear" -> IOSBridgeClear(keychain, fAdd)
                        [] c.op = "keys" -> IOSBridgeKeys(keychain, order, fAdd)
             IN  /\ keychain' = r.kc
                 /\ calls' = [calls EXCEPT ![i] =
                        [c EXCEPT !.pc = "done", !.existed = ex,
                                  !.fault = fAdd \/ (c.op = "put" /\ ex /\ fUpd),
                                  !.core = r.core, !.outcome = r.outcome,
                                  !.settles = c.settles + Settles(r.outcome)]]
    /\ UNCHANGED <<writeVars, jsVars, files, keystore, store, envVars, ghostVars, forceManualEncryption,
                   lazy, builtOn, queue, builds, forceAtFirstOp>>

\* Android: setEnforceManualEncryption only sets the field (the previous
\* revision takes no argument and sets it to true; the first revision has
\* other setters, which the runs modelled here do not call)
ASetEnforceManualEncryption(isEnforced) ==
    /\ platform = "android"
    /\ variant # RevFirst
    /\ ~CallerBusy
    /\ forceManualEncryption' = IF variant = RevPrevious THEN TRUE ELSE isEnforced
    /\ UNCHANGED <<writeVars, jsVars, coreVars, envVars, ghostVars, lazy, builtOn, calls, queue, builds, forceAtFirstOp>>

\* Android: put, get, remove and clear start a new Thread and return
ASubmit(op, k, str) ==
    /\ platform = "android"
    /\ ~CallerBusy
    /\ Len(calls) < MaxCalls
    /\ calls' = Append(calls, NewCall(op, k, str, "spawned", Worker))
    /\ forceAtFirstOp' = IF calls = <<>> THEN forceManualEncryption ELSE forceAtFirstOp
    /\ UNCHANGED <<writeVars, jsVars, coreVars, envVars, ghostVars, forceManualEncryption, lazy, builtOn, queue, builds>>

\* Android: keys runs in the handler itself, on the thread that dispatched the call
ASubmitKeys ==
    /\ platform = "android"
    /\ ~CallerBusy
    /\ Len(calls) < MaxCalls
    /\ calls' = Append(calls, NewCall("keys", <<>>, <<>>, "spawned", Caller))
    /\ forceAtFirstOp' = IF calls = <<>> THEN forceManualEncryption ELSE forceAtFirstOp
    /\ UNCHANGED <<writeVars, jsVars, coreVars, envVars, ghostVars, forceManualEncryption, lazy, builtOn, queue, builds>>

\* AEnter with a lazy that does not memoize a failed build
AEnterRetry(i) ==
    /\ platform = "android"
    /\ i \in DOMAIN calls
    /\ calls[i].pc = "spawned"
    /\ LET b == ABuild(forceManualEncryption, dirEncrypted, facilityOK)
           lz == IF lazy = "ok" THEN lazy ELSE IF b.ok THEN "ok" ELSE "failed"
       IN  /\ lazy' = lz
           /\ store' = IF lazy # "ok" THEN [store EXCEPT ![DirBridge] = b.store] ELSE store
           /\ builtOn' = IF lazy # "ok" THEN calls[i].thread ELSE builtOn
           /\ builds' = IF lazy # "ok" THEN builds + 1 ELSE builds
           /\ calls' = IF lz = "ok" THEN [calls EXCEPT ![i].pc = "running"]
                       ELSE [calls EXCEPT ![i].pc = "done",
                                          ![i].outcome = Reject("SECURE_STORE_NOT_INITIALIZED"),
                                          ![i].settles = calls[i].settles + 1]
    /\ UNCHANGED <<writeVars, jsVars, keychain, files, keystore, envVars, ghostVars, forceManualEncryption, queue,
                   forceAtFirstOp>>

\* AEnter with a plain getter in place of `by lazy`: every read of
\* `secureStorage` runs the builder again
AEnterNotMemoized(i) ==
    /\ platform = "android"
    /\ i \in DOMAIN calls
    /\ calls[i].pc = "spawned"
    /\ LET b == ABuild(forceManualEncryption, dirEncrypted, facilityOK)
           lz == IF b.ok THEN "ok" ELSE "failed"
       IN  /\ lazy' = lz
           /\ store' = [store EXCEPT ![DirBridge] = b.store]
           /\ builtOn' = calls[i].thread
           /\ builds' = builds + 1
           /\ calls' = IF lz = "ok" THEN [calls EXCEPT ![i].pc = "running"]
                       ELSE [calls EXCEPT ![i].pc = "done",
                                          ![i].outcome = Reject("SECURE_STORE_NOT_INITIALIZED"),
                                          ![i].settles = calls[i].settles + 1]
    /\ UNCHANGED <<writeVars, jsVars, keychain, files, keystore, envVars, ghostVars, forceManualEncryption, queue,
                   forceAtFirstOp>>

\* a call body reads `secureStorage`: the first read runs the lazy builder
\* (synchronized, memoized, null when build() throws); null rejects at once
AEnter(i) ==
    /\ platform = "android"
    /\ i \in DOMAIN calls
    /\ calls[i].pc = "spawned"
    /\ LET b == ABuild(forceManualEncryption, dirEncrypted, facilityOK)
           lz == IF lazy # "uninit" THEN lazy ELSE IF b.ok THEN "ok" ELSE "failed"
       IN  /\ lazy' = lz
           /\ store' = IF lazy = "uninit" THEN [store EXCEPT ![DirBridge] = b.store] ELSE store
           /\ builtOn' = IF lazy = "uninit" THEN calls[i].thread ELSE builtOn
           /\ builds' = IF lazy = "uninit" THEN builds + 1 ELSE builds
           /\ calls' = IF lz = "ok" THEN [calls EXCEPT ![i].pc = "running"]
                       ELSE [calls EXCEPT ![i].pc = "done",
                                          ![i].outcome = Reject("SECURE_STORE_NOT_INITIALIZED"),
                                          ![i].settles = calls[i].settles + 1]
    /\ UNCHANGED <<writeVars, jsVars, keychain, files, keystore, envVars, ghostVars, forceManualEncryption, queue,
                   forceAtFirstOp>>

\* the call body does its storage work on the built store and settles the promise
ARun(i, fault) ==
    /\ platform = "android"
    /\ i \in Running
    /\ LET c == calls[i]
           fs == files[DirBridge]
           ks == keystore[DirBridge]
           st == store[DirBridge]
           ex == IF c.op \in {"clear", "keys"} THEN ListedKeys(fs) # {}
                 ELSE fs[EncodeName(c.key)].present
       IN  \E order \in Orders(PresentNames(fs)),
              nonces \in (IF c.op = "put" THEN NonceChoices(st, Utf8Encode(c.str), fault)
                          ELSE {<<>>}),
              newKey \in (IF c.op = "put" THEN KeyChoices(st, ks, fault) ELSE {1}) :
             LET cur == CASE c.op = "put" ->
                             ABridgePut(fs, ks, st, c.key, c.str, nonces, newKey, fault)
                          [] c.op = "get" -> ABridgeGet(fs, ks, c.key, fault)
                          [] c.op = "remove" -> ABridgeRemove(fs, ks, c.key, fault)
                          [] c.op = "clear" -> ABridgeClear(fs, ks, fault)
                          [] c.op = "keys" -> ABridgeKeys(fs, ks, order, fault)
                 r == ABridgeOf(variant, c.op, cur)
             IN  /\ files' = [files EXCEPT ![DirBridge] = r.fs]
                 /\ keystore' = [keystore EXCEPT ![DirBridge] = r.ks]
                 /\ calls' = [calls EXCEPT ![i] =
                        [c EXCEPT !.pc = "done", !.existed = ex, !.fault = fault,
                                  !.core = r.core, !.outcome = r.outcome,
                                  !.settles = c.settles + Settles(r.outcome)]]
    /\ UNCHANGED <<writeVars, jsVars, keychain, store, envVars, ghostVars, forceManualEncryption, lazy, builtOn,
                   queue, builds, forceAtFirstOp>>

BridgeNext ==
    \/ \E k \in Keys, str \in Strings : IOSSubmit("put", k, str)
    \/ \E op \in {"get", "remove"}, k \in Keys : IOSSubmit(op, k, <<>>)
    \/ \E op \in {"clear", "keys"} : IOSSubmit(op, <<>>, <<>>)
    \/ IOSQueueStart
    \/ \E i \in 1..MaxCalls, fAdd \in BOOLEAN, fUpd \in BOOLEAN : IOSQueueRun(i, fAdd, fUpd)
    \/ \E isEnforced \in BOOLEAN : ASetEnforceManualEncryption(isEnforced)
    \/ \E k \in Keys, str \in Strings : ASubmit("put", k, str)
    \/ \E op \in {"get", "remove"}, k \in Keys : ASubmit(op, k, <<>>)
    \/ ASubmit("clear", <<>>, <<>>)
    \/ ASubmitKeys
    \/ \E i \in 1..MaxCalls : AEnter(i)
    \/ \E i \in 1..MaxCalls, fault \in BOOLEAN : ARun(i, fault)

SpecBridge == BridgeInit /\ [][BridgeNext]_vars

\* the bridges in every revision kept in the tree
SpecVariants == VariantInit /\ [][BridgeNext]_vars

ObsView == <<KeysView, [k \in Keys |-> GetView(k)]>>

(***************************************************************************)
(* SpecJS: the functions exported by the TypeScript module                 *)
(***************************************************************************)
\* Platform.OS values: the two with a native module, and two without
OSes == {"ios", "android", "web", "windows"}

JSFunctions == {"setEnforceManualEncryption", "put", "get", "clear", "remove", "keys", "tests"}

\* Platform.select of every exported function without its platform guard:
\* the native method is called on every platform
JSRouteUnguarded(fn, os) == "native"

\* Platform.select of every exported function: "native" when the branch of
\* the platform calls the native module, "unsupported" when the default
\* branch rejects with SecureStorageUnsupportedError
JSRoute(fn, os) ==
    IF fn \in {"setEnforceManualEncryption", "tests"}
    THEN IF os = "android" THEN "native" ELSE "unsupported"
    ELSE IF os \in {"ios", "android"} THEN "native" ELSE "unsupported"

JSInit ==
    /\ platform \in OSes
    /\ keychain = EmptyKeychain
    /\ files = [d \in Dirs |-> EmptyDir]
    /\ keystore = [d \in Dirs |-> 0]
    /\ dirEncrypted = "yes"
    /\ facilityOK = TRUE
    /\ store = [d \in Dirs |-> NoStore]
    /\ last = NoCall
    /\ shadow = [k \in Keys |-> Absent]
    /\ reopened = FALSE
    /\ tampered = {}
    /\ forceManualEncryption = FALSE
    /\ lazy = "uninit"
    /\ builtOn = "none"
    /\ calls = <<>>
    /\ queue = <<>>
    /\ variant = RevCurrent
    /\ builds = 0
    /\ forceAtFirstOp = FALSE
    /\ jsCalls = <<>>
    /\ deviceLocked = FALSE
    /\ pending = NoWrite

\* one call of an exported function: native tells whether the native module
\* was called, outcome is the promise the function returns when it was not
JSCall(fn) ==
    /\ Len(jsCalls) < MaxJSCalls
    /\ LET route == JSRoute(fn, platform)
       IN  jsCalls' = Append(jsCalls,
               [fn |-> fn, native |-> route = "native",
                outcome |-> IF route = "native" THEN Pending
                            ELSE Reject("PLATFORM_NOT_SUPPORTED")])
    /\ UNCHANGED <<writeVars, coreVars, envVars, ghostVars, bridgeVars>>

JSNext == \E fn \in JSFunctions : JSCall(fn)

SpecJS == JSInit /\ [][JSNext]_vars

(***************************************************************************)
(* Claims about the cores (checked under Spec)                             *)
(***************************************************************************)

C2_Overwrite ==
    (last.op = "put" /\ last.existed /\ ~last.fault)
        => (last.res = ROk /\ GetView(last.key) = RData(last.val))

C2_Witness ==
    /\ last.op = "put"
    /\ last.existed
    /\ last.res = ROk
    /\ last.old # last.val
    /\ Len(last.old) > 0

\* C4: after a successful remove(k) of a key that was put, get(k) is not found.
C4_RemoveThenGet ==
    (last.op = "remove" /\ last.res = ROk) => GetView(last.key) = RNil

C4_Witness ==
    /\ last.op = "remove"
    /\ last.res = ROk
    /\ last.existed

C6_ClearIdempotent ==
    [][(/\ last'.op = "clear"
        /\ ~last'.fault
        /\ (~last'.existed \/ (last.op = "clear" /\ last.res = ROk)))
          => (/\ last'.res = ROk
              /\ ObsView' = ObsView
              /\ keychain' = keychain
              /\ files' = files)]_vars

C6_Witness ==
    /\ last.op = "clear"
    /\ ~last.existed
    /\ ~last.fault
    /\ last.res = ROk

\* C7: after a successful clear() no key is listed and every get is not found.
C7_ClearAll ==
    (last.op = "clear" /\ last.res = ROk)
        => (KeysView = {} /\ \A k \in Keys : GetView(k) = RNil)

C7_Witness ==
    /\ last.op = "clear"
    /\ last.res = ROk
    /\ last.existed

\* C8: enumeration. keys() returns, without duplicates, exactly the keys whose
\* latest successful put was not followed by a successful remove of the key
\* or by a successful clear.
C8_Enumeration ==
    (last.op = "keys" /\ last.res.kind = "list")
        => (/\ ToSet(last.res.list) = { k \in Keys : shadow[k].present }
            /\ Len(last.res.list) = Cardinality(ToSet(last.res.list)))

C8_Witness ==
    /\ last.op = "keys"
    /\ last.res.kind = "list"
    /\ ToSet(last.res.list) = {K1, K2}

\* C16: persistence across instances. A value stored by a successful put,
\* and not removed or cleared since, is returned by get on an instance created
\* after that put over the same service name / directory.
C16_Persistence ==
    (/\ last.op = "get"
     /\ last.ns = TestNs
     /\ ~last.fault
     /\ reopened
     /\ shadow[last.key].present)
        => last.res = RData(shadow[last.key].data)

C16_Witness ==
    /\ last.op = "get"
    /\ last.ns = TestNs
    /\ reopened
    /\ shadow[last.key].present
    /\ last.res = RData(Fill(ChunkSize + 1, 0))

\* C18: format auto-detection on read. get decodes a file by its FormatTag,
\* not by the mode of the store: a value written in Automatic mode is returned
\* unchanged by a store over the same directory whose mode is Manual, and a
\* value written in Manual mode by a store whose mode is Automatic.
C18_FormatAutoDetect ==
    (/\ platform = "android"
     /\ last.op = "get"
     /\ last.ns = DirTest
     /\ ~last.fault
     /\ shadow[last.key].present
     /\ HasFormatTag(files[DirTest][EncodeName(last.key)].bytes)
            # (store[DirTest].mode = Manual))
        => last.res = RData(shadow[last.key].data)

C18_Witness ==
    /\ platform = "android"
    /\ last.op = "get"
    /\ last.ns = DirTest
    /\ HasFormatTag(files[DirTest][EncodeName(last.key)].bytes)
    /\ store[DirTest].mode = Automatic
    /\ last.res = RData(Fill(ChunkSize + 1, 0))

\* C19: mode selection policy. A store built with enforcement is Manual;
\* without enforcement it is Automatic when the directory is already
\* platform-encrypted and Manual when it is not; when the inspection of the
\* directory fails it is Manual.
C19_ModePolicy ==
    (platform = "android" /\ last.op = "build")
        => (/\ last.enforce => store[last.ns].mode = Manual
            /\ (~last.enforce /\ dirEncrypted = "yes") => store[last.ns].mode = Automatic
            /\ (~last.enforce /\ dirEncrypted = "no") => store[last.ns].mode = Manual
            /\ dirEncrypted = "unknown" => store[last.ns].mode = Manual)

C19_Witness ==
    /\ platform = "android"
    /\ last.op = "build"
    /\ ~last.enforce
    /\ dirEncrypted = "unknown"
    /\ store[last.ns].mode = Manual

(***************************************************************************)
(* Claims about two stores side by side (checked under SpecStores)         *)
(***************************************************************************)

\* C17: distinct stores are independent. A put, remove or clear (or any other
\* call) on the store of one service name / directory leaves what get and
\* keys return on the store of every other namespace unchanged.
\* (get and keys of a namespace read nothing but Backing(ns): the results are
\* compared whenever a step changes it)
C17_StoresIndependent ==
    [][\A ns \in Namespaces :
          last'.ns # ns => (Backing(ns)' = Backing(ns) \/ ViewOf(ns)' = ViewOf(ns))]_vars

C17_Witness ==
    /\ last.op = "clear"
    /\ last.res = ROk
    /\ last.existed
    /\ \E ns \in Namespaces :
          /\ ns # last.ns
          /\ KeysViewOf(ns) # {}
          /\ \E k \in Keys : GetViewOf(ns, k) = RData(Fill(ChunkSize + 1, 0))

(***************************************************************************)
(* Claims about the bridges (checked under SpecBridge)                     *)
(***************************************************************************)

\* C3: a get of a key that has no stored item, on a store that was built and
\* with no platform failure during the call, gets nil from the core and is
\* rejected with VALUE_NOT_FOUND: never a thrown error, never GET_FAILED.
C3_GetAbsent ==
    \A i \in DOMAIN calls :
        (/\ calls[i].op = "get"
         /\ calls[i].pc = "done"
         /\ platform = "android" => lazy = "ok"
         /\ ~calls[i].existed
         /\ ~calls[i].fault)
            => (calls[i].core = RNil /\ calls[i].outcome = Reject("VALUE_NOT_FOUND"))

C3_Witness ==
    \E i, j \in DOMAIN calls :
        /\ calls[i].op = "get"
        /\ calls[i].outcome = Reject("VALUE_NOT_FOUND")
        /\ calls[j].op = "put"
        /\ calls[j].outcome = Resolve
        /\ calls[j].key # calls[i].key

\* C9: at any time at most one call issued through a bridge is executing
\* against the store.
C9_Serialized == Cardinality(Running) <= 1

\* C10: no call does its storage work, and the lazy builder never runs, on
\* the caller-facing thread.
C10_OffCallerThread ==
    /\ \A i \in Running : calls[i].thread = Worker
    /\ builtOn # Caller

\* C11: setEnforceManualEncryption is effective only before the first
\* operation: the mode of the built store is the one selected by the value the
\* flag had when the first put / get / remove / clear / keys was issued; a
\* call made after that, however it interleaves with the thread that executes
\* the first operation, does not change it.
C11_ModeFixedAtFirstOperation ==
    (platform = "android" /\ lazy = "ok")
        => store[DirBridge].mode = ResolveMode(forceAtFirstOp, dirEncrypted)

\* C12: store initialisation failure is terminal. Once the lazy builder has
\* failed, the builder is never run again, the store stays missing, and every
\* call that reads the store afterwards is rejected at once with
\* SECURE_STORE_NOT_INITIALIZED, without running its body.
C12_InitFailureTerminal ==
    [][lazy = "failed"
        => (/\ lazy' = "failed"
            /\ builds' = builds
            /\ store' = store
            /\ \A i \in DOMAIN calls :
                  (calls[i].pc = "spawned" /\ calls'[i].pc # "spawned")
                      => (/\ calls'[i].pc = "done"
                          /\ calls'[i].outcome = Reject("SECURE_STORE_NOT_INITIALIZED")))]_vars

C12_Witness ==
    /\ lazy = "failed"
    /\ builds = 1
    /\ Len(calls) = 2
    /\ \A i \in DOMAIN calls :
          calls[i].pc = "done" /\ calls[i].outcome = Reject("SECURE_STORE_NOT_INITIALIZED")

(***************************************************************************)
(* Claims about every revision of the bridges (checked under SpecVariants) *)
(***************************************************************************)

\* C13: every put / get / remove / clear / keys call settles its promise
\* exactly once: no promise is resolved or rejected twice, and a call whose
\* body has finished has resolved or rejected its promise (a promise still
\* pending at that point stays pending forever).
C13_SettlesExactlyOnce ==
    \A i \in DOMAIN calls :
        /\ calls[i].settles <= 1
        /\ calls[i].pc = "done" => calls[i].settles = 1

\* C14: a call whose operation raised an error is rejected with the code of
\* that operation: PUT_FAILED, GET_FAILED, REMOVE_FAILED, CLEAR_FAILED,
\* KEYS_RETRIEVAL_FAILED.
C14_OwnErrorCode ==
    \A i \in DOMAIN calls :
        (calls[i].pc = "done" /\ calls[i].core.kind = "throw")
            => calls[i].outcome =
                   Reject(CASE calls[i].op = "put" -> "PUT_FAILED"
                            [] calls[i].op = "get" -> "GET_FAILED"
                            [] calls[i].op = "remove" -> "REMOVE_FAILED"
                            [] calls[i].op = "clear" -> "CLEAR_FAILED"
                            [] calls[i].op = "keys" -> "KEYS_RETRIEVAL_FAILED")

(***************************************************************************)
(* Claims about the TypeScript module (checked under SpecJS)               *)
(***************************************************************************)

\* C15: a call of an exported function on a platform that does not support
\* it (any function on a platform other than iOS and Android;
\* setEnforceManualEncryption and tests on iOS) returns a promise rejected
\* with PLATFORM_NOT_SUPPORTED and does not call the native module.
C15_UnsupportedRejects ==
    \A i \in DOMAIN jsCalls :
        (\/ platform \notin {"ios", "android"}
         \/ platform = "ios" /\ jsCalls[i].fn \in {"setEnforceManualEncryption", "tests"})
            => (/\ jsCalls[i].outcome = Reject("PLATFORM_NOT_SUPPORTED")
                /\ ~jsCalls[i].native)

C15_Witness ==
    /\ platform = "ios"
    /\ \E i, j \in DOMAIN jsCalls :
          /\ jsCalls[i].fn = "tests"
          /\ jsCalls[i].outcome = Reject("PLATFORM_NOT_SUPPORTED")
          /\ jsCalls[j].fn = "put"
          /\ jsCalls[j].native

(***************************************************************************)
(* Claims about tampered files (checked under SpecTamper)                  *)
(***************************************************************************)

\* C20: tamper detection. A get of a key whose manually encrypted file had a
\* byte of a chunk's ciphertext or tag changed, or was truncated, fails: it
\* returns no plaintext, corrupted or partial.
C20_TamperDetected ==
    (last.op = "get" /\ last.ns = DirTest /\ last.key \in tampered)
        => last.res = RThrow

(***************************************************************************)
(* Claims about the order of keys() (checked under Spec)                   *)
(***************************************************************************)

\* C28: keys() lists the keys in the order in which they were first put.  A
\* keys() call that directly follows the successful first put of a key, and
\* lists that key and an older one, lists the older key first and the key
\* just put last (put(k1, v); put(k2, v); keys() = [k1, k2]).
C28_InsertionOrder ==
    [][(/\ last.op = "put"
        /\ last.res = ROk
        /\ ~last.existed
        /\ last'.op = "keys"
        /\ last'.res.kind = "list"
        /\ Len(last'.res.list) = 2)
          => last'.res.list[2] = last.key]_vars

(***************************************************************************)
(* Claims about the lazily built store and its configuration (checked      *)
(* under SpecBridge and SpecVariants)                                       *)
(***************************************************************************)

\* C29: the store is built at most once per module instance.  However the
\* first operations interleave on their threads, the builder runs exactly
\* once; once it has run, its result (the store, or the memoized failure)
\* never changes; every call that goes on to its body does so on that store,
\* and every call turned away is turned away by that failure.
C29_BuiltOnce ==
    [][/\ builds' <= 1
       /\ lazy # "uninit" => (lazy' = lazy /\ store' = store /\ builds' = builds)
       /\ (lazy = "uninit" /\ lazy' # "uninit") => builds' = 1
       /\ \A i \in DOMAIN calls :
             (calls[i].pc = "spawned" /\ calls'[i].pc # "spawned")
                 => (/\ builds' = 1
                     /\ calls'[i].pc = "running" => (lazy' = "ok" /\ store'[DirBridge].built)
                     /\ calls'[i].pc = "done" => lazy' = "failed")]_vars

C29_Witness ==
    /\ platform = "android"
    /\ Cardinality(Running) = 2
    /\ builds = 1
    /\ lazy = "ok"

\* C30: setEnforceManualEncryption(isEnforced), called before the first
\* operation, sets the override to isEnforced: after the call the flag the
\* builder will read is true for true and false for false, so that of several
\* calls the last one wins.
C30_SetterSetsValue ==
    [][\A isEnforced \in BOOLEAN :
          (calls = <<>> /\ ASetEnforceManualEncryption(isEnforced))
              => forceManualEncryption' = isEnforced]_vars

(***************************************************************************)
(* SpecDecode: the store of the bridge also written by native code of the  *)
(* application, which stores arbitrary bytes; get is called through the    *)
(* bridge                                                                  *)
(***************************************************************************)
\* the userInfo keys of the rejection of a get call, by the result of the core
\* call: iOS passes ("error", ...) and ("code", ...) for a SecureStorageError,
\* ("error", "Error encoding data") for bytes that are not UTF-8, nothing for
\* a missing value
IOSGetUserInfo(r) ==
    IF r.kind = "throw" THEN {"error", "code"}
    ELSE IF r.kind = "nil" THEN {}
    ELSE IF ~Utf8Decode(r.data).ok THEN {"error"}
    ELSE {}

\* Android passes ("error", message) from the catch block only
AGetUserInfo(r) == IF r.kind = "throw" THEN {"error"} ELSE {}

GetUserInfo(r) == IF platform = "ios" THEN IOSGetUserInfo(r) ELSE AGetUserInfo(r)

DecodeNext ==
    \/ \E v \in Values : IOSCorePut(ServiceBridge, K1, v, FALSE, FALSE)
    \/ IOSSubmit("get", K1, <<>>)
    \/ IOSQueueStart
    \/ \E i \in 1..MaxCalls, fault \in BOOLEAN : IOSQueueRun(i, fault, FALSE)
    \/ \E v \in Values : ACorePut(DirBridge, K1, v, FALSE)
    \/ \E isEnforced \in BOOLEAN : ASetEnforceManualEncryption(isEnforced)
    \/ ASubmit("get", K1, <<>>)
    \/ \E i \in 1..MaxCalls : AEnter(i)
    \/ \E i \in 1..MaxCalls, fault \in BOOLEAN : ARun(i, fault)

SpecDecode == BridgeInit /\ [][DecodeNext]_vars

(***************************************************************************)
(* Claims about the decoding of stored bytes (checked under SpecDecode)    *)
(***************************************************************************)

\* C23: a get through the bridge whose stored bytes are not valid UTF-8 is
\* reported as a failure, and its rejection (code and userInfo) is neither the
\* one of a failed core call nor the one of a missing value.
C23_DecodeFailureDistinct ==
    \A i \in DOMAIN calls :
        (/\ calls[i].op = "get"
         /\ calls[i].pc = "done"
         /\ calls[i].core.kind = "data"
         /\ ~Utf8Decode(calls[i].core.data).ok)
            => (/\ calls[i].outcome.kind = "reject"
                /\ <<calls[i].outcome.code, GetUserInfo(calls[i].core)>>
                      \notin { <<"GET_FAILED", GetUserInfo(RThrow)>>,
                               <<"VALUE_NOT_FOUND", GetUserInfo(RNil)>> })

(***************************************************************************)
(* SpecLock: the Keychain store on a device that is locked and unlocked    *)
(***************************************************************************)
\* the user locks (TRUE) or unlocks (FALSE) the device
IOSDeviceLock(locked) ==
    /\ platform = "ios"
    /\ deviceLocked # locked
    /\ deviceLocked' = locked
    /\ UNCHANGED <<writeVars, jsVars, coreVars, ghostVars, bridgeVars, platform, dirEncrypted, facilityOK,
                   variant>>

LockInit ==
    /\ CoreInit
    /\ platform = "ios"

LockNext ==
    \/ \E locked \in BOOLEAN : IOSDeviceLock(locked)
    \/ \E k \in Keys, v \in Values, fAdd \in BOOLEAN, fUpd \in BOOLEAN :
          IOSCorePut(ServiceTest, k, v, fAdd, fUpd)
    \/ \E k \in Keys, fault \in BOOLEAN : IOSCoreGet(ServiceTest, k, fault)
    \/ \E k \in Keys, fault \in BOOLEAN : IOSCoreRemove(ServiceTest, k, fault)
    \/ \E fault \in BOOLEAN : IOSCoreClear(ServiceTest, fault)

SpecLock == LockInit /\ [][LockNext]_vars

(***************************************************************************)
(* Claims about the locked device (checked under SpecLock)                 *)
(***************************************************************************)

\* C26: stored values are readable only while the device is unlocked.  Every
\* item in the Keychain, whether put added it or overwrote it, carries the
\* when-unlocked-this-device-only accessibility, and no get made while the
\* device is locked returns a value.
C26_UnlockedOnly ==
    /\ \A svc \in Services, k \in Keys :
          keychain[svc][k].present
              => keychain[svc][k].accessible = WhenUnlockedThisDeviceOnly
    /\ (last.op = "get" /\ last.locked) => last.res.kind # "data"

C26_Witness ==
    /\ last.op = "get"
    /\ last.locked
    /\ last.existed
    /\ ~last.fault
    /\ last.res = RThrow
    /\ shadow[last.key] = Present(Fill(ChunkSize + 1, 0))

(***************************************************************************)
(* SpecWrite: put taken step by step on the test store, with readers       *)
(* between its steps, failures, and crashes of the process                 *)
(***************************************************************************)
\* the byte stream a put writes, and the key of the alias after it
PutStream(ks, st, data, nonces, newKey) ==
    LET km == IF ks = 0 THEN newKey ELSE ks
    IN  [stream |-> IF st.mode = Manual THEN Encrypt(data, km, nonces) ELSE data,
         ks |-> IF st.mode = Manual THEN km ELSE ks]

\* FileStore.write that writes through to the final file as it goes
WriteTmpByteInPlace(fs, key, stream) ==
    LET n == Len(fs[TmpName(key)].bytes)
    IN  [fs EXCEPT ![TmpName(key)] = File(SubSeq(stream, 1, n + 1)),
                   ![EncodeName(key)] = File(SubSeq(stream, 1, n + 1))]

\* FileStore.write: the next byte of the stream goes to the temporary file
WriteTmpByte(fs, key, stream) ==
    LET n == Len(fs[TmpName(key)].bytes)
    IN  [fs EXCEPT ![TmpName(key)] = File(SubSeq(stream, 1, n + 1))]

\* FileStore.write: the atomic rename of the temporary file over the final name
RenameTmp(fs, key) ==
    [fs EXCEPT ![EncodeName(key)] = fs[TmpName(key)], ![TmpName(key)] = NoFile]

\* Android put, first step: the stream is encoded (the key of the alias is
\* generated when there is none) and the temporary file is created
APutBegin(d, k, v) ==
    /\ platform = "android"
    /\ store[d].built
    /\ ~pending.active
    /\ \E nonces \in NonceChoices(store[d], v, FALSE),
          newKey \in KeyChoices(store[d], keystore[d], FALSE) :
          LET p == PutStream(keystore[d], store[d], v, nonces, newKey)
          IN  /\ keystore' = [keystore EXCEPT ![d] = p.ks]
              /\ files' = [files EXCEPT ![d][TmpName(k)] = File(<<>>)]
              /\ pending' = [NoWrite EXCEPT !.active = TRUE, !.ns = d, !.key = k, !.val = v,
                                            !.stream = p.stream, !.step = "write"]
    /\ UNCHANGED <<jsVars, keychain, store, envVars, ghostVars, bridgeVars>>

\* Android put: one more byte reaches the temporary file
APutWriteByte ==
    /\ platform = "android"
    /\ pending.active
    /\ pending.step = "write"
    /\ Len(files[pending.ns][TmpName(pending.key)].bytes) < Len(pending.stream)
    /\ files' = [files EXCEPT ![pending.ns] = WriteTmpByte(@, pending.key, pending.stream)]
    /\ UNCHANGED <<writeVars, jsVars, keychain, keystore, store, envVars, ghostVars, bridgeVars>>

\* Android put: the complete temporary file replaces the final file
APutRename ==
    /\ platform = "android"
    /\ pending.active
    /\ pending.step = "write"
    /\ Len(files[pending.ns][TmpName(pending.key)].bytes) = Len(pending.stream)
    /\ files' = [files EXCEPT ![pending.ns] = RenameTmp(@, pending.key)]
    /\ pending' = [pending EXCEPT !.step = "renamed"]
    /\ UNCHANGED <<jsVars, keychain, keystore, store, envVars, ghostVars, bridgeVars>>

\* Android put called directly: returns to its caller
APutReturn ==
    /\ platform = "android"
    /\ pending.active
    /\ pending.step = "renamed"
    /\ pending.call = 0
    /\ Observe(pending.ns, "put", pending.key, pending.val, FALSE, shadow[pending.key].present, ROk)
    /\ pending' = NoWrite
    /\ UNCHANGED <<jsVars, coreVars, envVars, bridgeVars>>

\* Android put called directly: a write to the temporary file fails (storage
\* full, I/O error) and put throws; what was written of the temporary file stays
APutFail ==
    /\ platform = "android"
    /\ pending.active
    /\ pending.step = "write"
    /\ pending.call = 0
    /\ Observe(pending.ns, "put", pending.key, pending.val, TRUE, shadow[pending.key].present, RThrow)
    /\ pending' = NoWrite
    /\ UNCHANGED <<jsVars, coreVars, envVars, bridgeVars>>

\* iOS put, first step: SecItemAdd
IOSPutAdd(svc, k, v, fault) ==
    /\ platform = "ios"
    /\ ~pending.active
    /\ LET a == SecItemAdd(keychain, svc, k, v, fault)
       IN  /\ keychain' = a.kc
           /\ pending' = [NoWrite EXCEPT
                  !.active = TRUE, !.ns = svc, !.key = k, !.val = v,
                  !.step = IF a.status = "errSecDuplicateItem" THEN "update" ELSE "return",
                  !.res = IF a.status = "errSecSuccess" THEN ROk ELSE RThrow]
    /\ UNCHANGED <<jsVars, files, keystore, store, envVars, ghostVars, bridgeVars>>

\* IOSPutUpdate that replaces the duplicate by deleting it and adding the new item
IOSPutUpdateReplaces(fault) ==
    /\ platform = "ios"
    /\ pending.active
    /\ pending.step = "update"
    /\ LET d == SecItemDelete(keychain, pending.ns, {pending.key}, FALSE)
           a == SecItemAdd(d.kc, pending.ns, pending.key, pending.val, fault)
       IN  /\ keychain' = a.kc
           /\ pending' = [pending EXCEPT !.step = "return",
                             !.res = IF a.status = "errSecSuccess" THEN ROk ELSE RThrow]
    /\ UNCHANGED <<jsVars, files, keystore, store, envVars, ghostVars, bridgeVars>>

\* iOS put, the duplicate branch: SecItemUpdate of the existing item
IOSPutUpdate(fault) ==
    /\ platform = "ios"
    /\ pending.active
    /\ pending.step = "update"
    /\ LET u == SecItemUpdate(keychain, pending.ns, pending.key, pending.val, fault)
       IN  /\ keychain' = u.kc
           /\ pending' = [pending EXCEPT !.step = "return",
                             !.res = IF u.status = "errSecSuccess" THEN ROk ELSE RThrow]
    /\ UNCHANGED <<jsVars, files, keystore, store, envVars, ghostVars, bridgeVars>>

\* iOS put: the guard on the status, then the return or the throw
IOSPutReturn ==
    /\ platform = "ios"
    /\ pending.active
    /\ pending.step = "return"
    /\ Observe(pending.ns, "put", pending.key, pending.val, pending.res = RThrow,
               shadow[pending.key].present, pending.res)
    /\ pending' = NoWrite
    /\ UNCHANGED <<jsVars, coreVars, envVars, bridgeVars>>

\* the process is killed while a put is in progress: the put never returns and
\* the instances are gone; what is in the Keychain or on disk stays.  The
\* abstract map restarts from what the next session finds for the key
CrashDuringPut ==
    /\ pending.active
    /\ pending.call = 0
    /\ pending' = NoWrite
    /\ store' = [d \in Dirs |-> NoStore]
    /\ last' = [NoCall EXCEPT !.ns = pending.ns, !.op = "crash", !.key = pending.key,
                              !.val = pending.val, !.existed = shadow[pending.key].present,
                              !.old = shadow[pending.key].data]
    /\ LET found == GetViewOf(pending.ns, pending.key)
       IN  shadow' = IF found.kind = "data" THEN [shadow EXCEPT ![pending.key] = Present(found.data)]
                     ELSE IF found = RNil THEN [shadow EXCEPT ![pending.key] = Absent]
                     ELSE shadow
    /\ UNCHANGED <<jsVars, keychain, files, keystore, envVars, reopened, tampered, bridgeVars>>

\* other code of the application adds to the service an item whose account is
\* not a String
IOSForeignAdd(svc) ==
    /\ platform = "ios"
    /\ ~keychain[svc][RawAccount].present
    /\ keychain' = [keychain EXCEPT ![svc][RawAccount] =
                      [present |-> TRUE, data |-> <<>>, accessible |-> WhenUnlockedThisDeviceOnly]]
    /\ last' = [NoCall EXCEPT !.ns = svc, !.op = "foreign"]
    /\ UNCHANGED <<writeVars, jsVars, files, keystore, store, envVars, shadow, reopened, tampered,
                   bridgeVars>>

\* a file that is not the file of a key appears in the directory
AForeignFile(d) ==
    /\ platform = "android"
    /\ ~files[d][BookkeepingName].present
    /\ files' = [files EXCEPT ![d][BookkeepingName] = File(<<>>)]
    /\ last' = [NoCall EXCEPT !.ns = d, !.op = "foreign"]
    /\ UNCHANGED <<writeVars, jsVars, keychain, keystore, store, envVars, shadow, reopened,
                   tampered, bridgeVars>>

WriteInit ==
    /\ CoreInit
    /\ dirEncrypted = "yes"
    /\ facilityOK

\* readers run between the steps of a put; removals when no put is in progress
WriteNext ==
    \/ \E k \in StoreKeys, v \in StoreValues, fault \in BOOLEAN : IOSPutAdd(ServiceTest, k, v, fault)
    \/ \E fault \in BOOLEAN : IOSPutUpdate(fault)
    \/ IOSPutReturn
    \/ \E k \in StoreKeys : IOSCoreGet(ServiceTest, k, FALSE)
    \/ IOSCoreKeys(ServiceTest, FALSE)
    \/ \E k \in StoreKeys : ~pending.active /\ IOSCoreRemove(ServiceTest, k, FALSE)
    \/ IOSForeignAdd(ServiceTest)
    \/ \E enforce \in BOOLEAN : ~pending.active /\ ACoreBuild(DirTest, enforce)
    \/ \E k \in StoreKeys, v \in StoreValues : APutBegin(DirTest, k, v)
    \/ APutWriteByte
    \/ APutRename
    \/ APutReturn
    \/ APutFail
    \/ \E k \in StoreKeys : ACoreGet(DirTest, k, FALSE)
    \/ ACoreKeys(DirTest, FALSE)
    \/ \E k \in StoreKeys : ~pending.active /\ ACoreRemove(DirTest, k, FALSE)
    \/ AForeignFile(DirTest)
    \/ CrashDuringPut

SpecWrite == WriteInit /\ [][WriteNext]_vars

(***************************************************************************)
(* Claims about writes taken step by step (checked under SpecWrite)        *)
(***************************************************************************)
\* what get returns for a key according to the successful calls made so far
ShadowResult(k) == IF shadow[k].present THEN RData(shadow[k].data) ELSE RNil

\* the store of a namespace holds an entry that is not the item of a key
ForeignEntries(ns) ==
    IF platform = "ios" THEN keychain[ns][RawAccount].present
    ELSE \E n \in PresentNames(files[ns]) : ~NameIsKey(n)

\* C21: crash-consistent write.  While put(k, v2) is in progress, at every
\* step of it, and after a crash at any of its steps, what get(k) returns is
\* the complete previous value of k (not found when there was none) or the
\* complete v2: never a partially written value.
C21_CrashConsistent ==
    /\ pending.active
          => GetViewOf(pending.ns, pending.key)
                \in {ShadowResult(pending.key), RData(pending.val)}
    /\ (last.op = "crash" /\ ~pending.active)
          => GetViewOf(last.ns, last.key)
                \in {IF last.existed THEN RData(last.old) ELSE RNil, RData(last.val)}

C21_Witness ==
    /\ platform = "android"
    /\ last.op = "crash"
    /\ ~pending.active
    /\ last.existed
    /\ last.old # last.val
    /\ Len(last.val) > ChunkSize
    /\ HasFormatTag(files[DirTest][TmpName(last.key)].bytes)
    /\ Len(files[DirTest][TmpName(last.key)].bytes) > Len(FormatTag) + 1
    /\ GetView(last.key) = RData(last.old)

\* C24: a put that fails leaves the store unchanged.  After put(k, v2) has
\* thrown, get of every key returns what it returned before the put (for k:
\* its complete previous value, or not found), and keys() lists the same keys.
C24_FailedPutNoEffect ==
    (last.op = "put" /\ last.res = RThrow /\ ~pending.active)
        => (/\ \A k \in Keys : GetView(k) = ShadowResult(k)
            /\ KeysView = { k \in Keys : shadow[k].present })

C24_Witness ==
    /\ last.op = "put"
    /\ last.res = RThrow
    /\ ~pending.active
    /\ last.existed
    /\ last.old # last.val
    /\ Len(last.old) > ChunkSize
    /\ GetView(last.key) = RData(last.old)

C27_KeysSkipsInvalid ==
    (last.op = "keys" /\ ~last.fault /\ ForeignEntries(last.ns))
        => (/\ last.res.kind = "list"
            /\ ~pending.active
                  => ToSet(last.res.list) = { k \in Keys : GetView(k) # RNil })

C27_Witness ==
    /\ platform = "ios"
    /\ last.op = "keys"
    /\ ForeignEntries(last.ns)
    /\ ~pending.active
    /\ ToSet(last.res.list) = {K1, K2}

(***************************************************************************)
(* SpecRace: put and get of one key issued back to back through a bridge   *)
(***************************************************************************)
\* strings whose UTF-8 bytes take more than one chunk
RaceOld == <<Wide>> \o [i \in 1..ChunkSize |-> Ascii]
RaceNew == [i \in 1..(ChunkSize + 1) |-> Ascii]

\* the bridge's store as an earlier session left it: empty, or holding RaceOld
\* under K1 (shadow records which)
RaceInit ==
    /\ platform \in {"ios", "android"}
    /\ deviceLocked = FALSE
    /\ \E had \in BOOLEAN :
          /\ shadow = [k \in Keys |-> IF had /\ k = K1 THEN Present(Utf8Encode(RaceOld))
                                       ELSE Absent]
          /\ keychain = IF had /\ platform = "ios"
                        THEN IOSBridgePut(EmptyKeychain, K1, RaceOld, FALSE, FALSE).kc
                        ELSE EmptyKeychain
          /\ \E enforce \in BOOLEAN :
                LET st == ABuild(enforce, "yes", TRUE).store
                IN  \E nonces \in NonceChoices(st, Utf8Encode(RaceOld), FALSE),
                       newKey \in KeyChoices(st, 0, FALSE) :
                      LET r == ABridgePut(EmptyDir, 0, st, K1, RaceOld, nonces, newKey, FALSE)
                          was == had /\ platform = "android"
                      IN  /\ files = [d \in Dirs |-> IF was /\ d = DirBridge THEN r.fs
                                                     ELSE EmptyDir]
                          /\ keystore = [d \in Dirs |-> IF was /\ d = DirBridge THEN r.ks
                                                        ELSE 0]
    /\ dirEncrypted = "yes"
    /\ facilityOK = TRUE
    /\ variant = RevCurrent
    /\ store = [d \in Dirs |-> NoStore]
    /\ last = NoCall
    /\ reopened = FALSE
    /\ tampered = {}
    /\ forceManualEncryption = FALSE
    /\ lazy = "uninit"
    /\ builtOn = "none"
    /\ calls = <<>>
    /\ queue = <<>>
    /\ builds = 0
    /\ forceAtFirstOp = FALSE
    /\ jsCalls = <<>>
    /\ pending = NoWrite

\* Android: the thread of put(key, data) calls the store's put, which encodes
\* the stream and creates the temporary file
ABridgePutBegin(i) ==
    /\ platform = "android"
    /\ i \in Running
    /\ calls[i].op = "put"
    /\ ~pending.active
    /\ LET st == store[DirBridge]
           v == Utf8Encode(calls[i].str)
       IN  \E nonces \in NonceChoices(st, v, FALSE),
              newKey \in KeyChoices(st, keystore[DirBridge], FALSE) :
              LET p == PutStream(keystore[DirBridge], st, v, nonces, newKey)
              IN  /\ keystore' = [keystore EXCEPT ![DirBridge] = p.ks]
                  /\ files' = [files EXCEPT ![DirBridge][TmpName(calls[i].key)] = File(<<>>)]
                  /\ pending' = [NoWrite EXCEPT !.active = TRUE, !.ns = DirBridge,
                                    !.key = calls[i].key, !.val = v, !.stream = p.stream,
                                    !.step = "write", !.call = i]
    /\ UNCHANGED <<jsVars, keychain, store, envVars, ghostVars, bridgeVars>>

\* Android: the store's put has returned and the thread resolves the promise
ABridgePutSettle(i) ==
    /\ platform = "android"
    /\ i \in Running
    /\ pending.active
    /\ pending.call = i
    /\ pending.step = "renamed"
    /\ calls' = [calls EXCEPT ![i] =
                    [@ EXCEPT !.pc = "done", !.existed = shadow[pending.key].present,
                              !.core = ROk, !.outcome = Resolve, !.settles = @ + 1]]
    /\ pending' = NoWrite
    /\ UNCHANGED <<jsVars, coreVars, envVars, ghostVars, forceManualEncryption, lazy, builtOn,
                   queue, builds, forceAtFirstOp>>

\* one put(K1, RaceNew), and gets of K1 issued without awaiting it
RaceNext ==
    \/ (\A j \in DOMAIN calls : calls[j].op # "put") /\ IOSSubmit("put", K1, RaceNew)
    \/ IOSSubmit("get", K1, <<>>)
    \/ IOSQueueStart
    \/ \E i \in 1..MaxCalls : IOSQueueRun(i, FALSE, FALSE)
    \/ \E isEnforced \in BOOLEAN : calls = <<>> /\ ASetEnforceManualEncryption(isEnforced)
    \/ (\A j \in DOMAIN calls : calls[j].op # "put") /\ ASubmit("put", K1, RaceNew)
    \/ ASubmit("get", K1, <<>>)
    \/ \E i \in 1..MaxCalls : AEnter(i)
    \/ \E i \in 1..MaxCalls : ABridgePutBegin(i)
    \/ APutWriteByte
    \/ APutRename
    \/ \E i \in 1..MaxCalls : ABridgePutSettle(i)
    \/ \E i \in 1..MaxCalls : i \in Running /\ calls[i].op = "get" /\ ARun(i, FALSE)

SpecRace == RaceInit /\ [][RaceNext]_vars

\* what get(K1) settles with when it reads the store as the earlier session left it
RaceOldOutcome ==
    IF shadow[K1].present THEN ResolveStr(RaceOld) ELSE Reject("VALUE_NOT_FOUND")

\* C22: put(x, newValue) with a multi-chunk newValue and get(x) issued back
\* to back through the bridge, the put not awaited: the get settles with the
\* complete old value of x (not found when there was none) or the complete
\* newValue, never a shorter or mixed value and never a failure, on both bridges.
C22_GetOldOrNew ==
    \A i \in DOMAIN calls :
        (calls[i].op = "get" /\ calls[i].pc = "done")
            => calls[i].outcome \in
                  {RaceOldOutcome} \cup
                  { ResolveStr(calls[j].str) : j \in { x \in DOMAIN calls : calls[x].op = "put" } }

C22_Witness ==
    /\ platform = "android"
    /\ Len(calls) = 2
    /\ calls[1].op = "put"
    /\ calls[1].pc = "running"
    /\ calls[2].op = "get"
    /\ calls[2].pc = "done"
    /\ calls[2].outcome = ResolveStr(RaceOld)
    /\ pending.active
    /\ pending.call = 1
    /\ Len(files[DirBridge][TmpName(K1)].bytes) > Len(FormatTag) + 1
    /\ store[DirBridge].mode = Manual

(***************************************************************************)
(* Claims about the order and the codes of bridge calls                    *)
(***************************************************************************)
\* C31: SECURE_STORE_NOT_INITIALIZED is rejected only when building the
\* store failed.  A put, get, remove, clear or keys call that rejects with it
\* ran with the lazy build failed; on a built store none does, a get of an
\* absent key included.
C31_NotInitializedOnlyOnBuildFailure ==
    \A i \in DOMAIN calls :
        (calls[i].pc = "done" /\ calls[i].outcome = Reject("SECURE_STORE_NOT_INITIALIZED"))
            => lazy = "failed"

\* call m writes key k: a put or a remove of k, or a clear
WritesKey(m, k) ==
    \/ calls[m].op = "clear"
    \/ calls[m].op \in {"put", "remove"} /\ calls[m].key = k

\* C32: operations submitted to a bridge take effect in submission order.
\* When get(k) is submitted after put(k, v) with no other write to k submitted
\* in between, the put not awaited and neither call meeting a platform failure,
\* the get resolves with v; submitted after remove(k) or clear() it rejects
\* with VALUE_NOT_FOUND.
C32_SubmissionOrder ==
    \A i \in DOMAIN calls, j \in DOMAIN calls :
        (/\ i < j
         /\ calls[j].op = "get"
         /\ calls[j].pc = "done"
         /\ ~calls[j].fault
         /\ WritesKey(i, calls[j].key)
         /\ \A m \in (i + 1)..(j - 1) : ~WritesKey(m, calls[j].key)
         /\ ~(calls[i].pc = "done" /\ calls[i].fault)
         /\ lazy # "failed")
            => calls[j].outcome = IF calls[i].op = "put" THEN ResolveStr(calls[i].str)
                                  ELSE Reject("VALUE_NOT_FOUND")

(***************************************************************************)
(* SpecFrame: puts and removes on a store that holds several keys          *)
(***************************************************************************)
FrameNext ==
    \/ \E k \in Keys, v \in StoreValues, fAdd \in BOOLEAN, fUpd \in BOOLEAN :
          IOSCorePut(ServiceTest, k, v, fAdd, fUpd)
    \/ \E k \in Keys, fault \in BOOLEAN : IOSCoreRemove(ServiceTest, k, fault)
    \/ \E enforce \in BOOLEAN : ACoreBuild(DirTest, enforce)
    \/ \E k \in Keys, v \in StoreValues, fault \in BOOLEAN : ACorePut(DirTest, k, v, fault)
    \/ \E k \in Keys, fault \in BOOLEAN : ACoreRemove(DirTest, k, fault)

SpecFrame == CoreInit /\ [][FrameNext]_vars

\* C33: put(k, v) and remove(k) change only key k.  Across every put or
\* remove, failed ones included, get of every other key of the store returns
\* what it returned before, and that key is listed by keys() after the call
\* exactly when it was before.
C33_FrameEffect ==
    [][last'.op \in {"put", "remove"}
          => \A k \in Keys \ {last'.key} :
                /\ GetView(k)' = GetView(k)
                /\ (k \in KeysView)' = (k \in KeysView)]_vars

C33_Witness ==
    /\ last.op \in {"put", "remove"}
    /\ last.res = ROk
    /\ last.key = K1
    /\ last.existed
    /\ shadow[K2] = Present(Fill(ChunkSize + 1, 0))
    /\ GetView(K2) = RData(Fill(ChunkSize + 1, 0))
    /\ K2 \in KeysView

(***************************************************************************)
(* SpecQueue: the blocks of the iOS bridge, the put block taken call by    *)
(* Keychain call                                                           *)
(***************************************************************************)
\* the bridge's service as an earlier session left it: empty, or holding
\* RaceOld under K1
QueueInit ==
    /\ RaceInit
    /\ platform = "ios"

\* the put block encodes the string and put makes its SecItemAdd
IOSBlockPutAdd(i, fault) ==
    /\ platform = "ios"
    /\ i \in Running
    /\ calls[i].op = "put"
    /\ ~pending.active
    /\ LET v == Utf8Encode(calls[i].str)
           a == SecItemAdd(keychain, ServiceBridge, calls[i].key, v, fault)
       IN  /\ keychain' = a.kc
           /\ pending' = [NoWrite EXCEPT
                  !.active = TRUE, !.ns = ServiceBridge, !.key = calls[i].key, !.val = v,
                  !.step = IF a.status = "errSecDuplicateItem" THEN "update" ELSE "return",
                  !.res = IF a.status = "errSecSuccess" THEN ROk ELSE RThrow,
                  !.call = i]
           /\ calls' = [calls EXCEPT ![i].existed = (a.status = "errSecDuplicateItem"),
                                     ![i].fault = fault]
    /\ UNCHANGED <<jsVars, files, keystore, store, envVars, ghostVars, forceManualEncryption,
                   lazy, builtOn, queue, builds, forceAtFirstOp>>

\* put has returned or thrown: the block resolves or rejects the promise
IOSBlockPutSettle(i) ==
    /\ platform = "ios"
    /\ i \in Running
    /\ pending.active
    /\ pending.call = i
    /\ pending.step = "return"
    /\ calls' = [calls EXCEPT ![i] =
                    [@ EXCEPT !.pc = "done", !.core = pending.res,
                              !.outcome = IF pending.res = ROk THEN Resolve
                                          ELSE Reject("PUT_FAILED"),
                              !.settles = @ + 1]]
    /\ pending' = NoWrite
    /\ UNCHANGED <<jsVars, coreVars, envVars, ghostVars, forceManualEncryption, lazy, builtOn,
                   queue, builds, forceAtFirstOp>>

QueueNext ==
    \/ \E k \in Keys, str \in Strings : IOSSubmit("put", k, str)
    \/ \E k \in Keys : IOSSubmit("remove", k, <<>>)
    \/ IOSSubmit("clear", <<>>, <<>>)
    \/ IOSQueueStart
    \/ \E i \in 1..MaxCalls, fault \in BOOLEAN : IOSBlockPutAdd(i, fault)
    \/ \E fault \in BOOLEAN : IOSPutUpdate(fault)
    \/ \E i \in 1..MaxCalls : IOSBlockPutSettle(i)
    \/ \E i \in 1..MaxCalls, fault \in BOOLEAN :
          i \in Running /\ calls[i].op # "put" /\ IOSQueueRun(i, fault, FALSE)

SpecQueue == QueueInit /\ [][QueueNext]_vars

\* C34: with every operation going through the bridge's serial queue, no
\* remove or clear runs between the SecItemAdd and the SecItemUpdate of a
\* put.  The item SecItemAdd found as a duplicate is still there when
\* SecItemUpdate is called, so the put never fails with item-not-found, and
\* when the put succeeds, k maps to v at the moment it completes.
C34_PutNotInterleaved ==
    /\ [](pending.active => Running = {pending.call})
    /\ []((pending.active /\ pending.step = "update")
             => keychain[pending.ns][pending.key].present)
    /\ [][\A i \in DOMAIN calls :
             (/\ calls[i].op = "put"
              /\ calls[i].pc = "running"
              /\ calls'[i].pc = "done"
              /\ calls'[i].outcome = Resolve)
                => IOSGet(keychain', ServiceBridge, calls[i].key, FALSE)
                      = RData(Utf8Encode(calls[i].str))]_vars

C34_Witness ==
    /\ platform = "ios"
    /\ Len(calls) = 2
    /\ calls[1].op = "put"
    /\ calls[1].pc = "running"
    /\ calls[2].op \in {"remove", "clear"}
    /\ calls[2].key \in {calls[1].key, <<>>}
    /\ calls[2].pc = "queued"
    /\ pending.active
    /\ pending.step = "update"
====
